---- MODULE Spec2Model ----
(***************************************************************************)
(* Vendor evaluation backend: the four dimension evaluators                *)
(* (services/agents), the application and assessment pipelines             *)
(* (services/workflows) and the search client (services/search_client.py). *)
(*                                                                         *)
(* Scores are kept in hundredths (1.5 is 150), an absent score (None) is   *)
(* the empty sequence, texts are strings compared as Python compares them. *)
(***************************************************************************)
EXTENDS Integers, Sequences, FiniteSets, TLC

\* ------------------------------------------------------------------------
\* Text: str.lower() and the substring test `kw in text`
\* ------------------------------------------------------------------------

UpperToLower ==
    ("A" :> "a") @@ ("B" :> "b") @@ ("C" :> "c") @@ ("D" :> "d") @@
    ("E" :> "e") @@ ("F" :> "f") @@ ("G" :> "g") @@ ("H" :> "h") @@
    ("I" :> "i") @@ ("J" :> "j") @@ ("K" :> "k") @@ ("L" :> "l") @@
    ("M" :> "m") @@ ("N" :> "n") @@ ("O" :> "o") @@ ("P" :> "p") @@
    ("Q" :> "q") @@ ("R" :> "r") @@ ("S" :> "s") @@ ("T" :> "t") @@
    ("U" :> "u") @@ ("V" :> "v") @@ ("W" :> "w") @@ ("X" :> "x") @@
    ("Y" :> "y") @@ ("Z" :> "z")

\* Characters outside ASCII are written with one stand-in character each:
\* U+2161 (Roman numeral two) and U+2171 (small Roman numeral two)
ROMAN_NUMERAL_TWO == "^"

SMALL_ROMAN_NUMERAL_TWO == "~"

LowerChar(c) ==
    IF c \in DOMAIN UpperToLower THEN UpperToLower[c]
    ELSE IF c = ROMAN_NUMERAL_TWO THEN SMALL_ROMAN_NUMERAL_TWO
    ELSE c

RECURSIVE Lower(_)
\* text.lower(), character by character (the text is halved to keep the
\* evaluation shallow)
Lower(text) ==
    IF Len(text) = 0 THEN ""
    ELSE IF Len(text) = 1 THEN LowerChar(text)
    ELSE Lower(SubSeq(text, 1, Len(text) \div 2))
         \o Lower(SubSeq(text, Len(text) \div 2 + 1, Len(text)))

\* kw in text
Contains(text, kw) ==
    \E i \in 1..(Len(text) - Len(kw) + 1) :
        SubSeq(text, i, i + Len(kw) - 1) = kw

\* any(kw in f.lower() for kw in kws)
AnyKw(f, kws) ==
    LET lowered == Lower(f)
    IN  \E kw \in kws : Contains(lowered, kw)

\* [f for f in findings if any(kw in f.lower() for kw in kws)]
Matching(findings, kws) ==
    SelectSeq(findings, LAMBDA f : AnyKw(f, kws))

RECURSIVE Flatten(_)
\* findings.extend(...) applied to each list of a sequence of lists, in order
Flatten(lists) ==
    IF lists = << >> THEN << >> ELSE Head(lists) \o Flatten(Tail(lists))

\* ------------------------------------------------------------------------
\* Optional scores and two-decimal rounding
\* ------------------------------------------------------------------------

None == << >>

Some(x) == << x >>

\* max(2.0, min(5.0, n/d)) as a fraction, d > 0
Clamp2to5(n, d) ==
    IF n < 2 * d THEN << 2, 1 >>
    ELSE IF n > 5 * d THEN << 5, 1 >>
    ELSE << n, d >>

\* round(n/d, 2) in hundredths, n >= 0 and d > 0.  Python rounds the binary
\* floating-point value: off a tie that is the nearest hundredth; on an exact
\* decimal tie the float may sit on either side, so both neighbours are kept.
Round2(n, d) ==
    LET q == (100 * n) \div d
        r == (100 * n) % d
    IN  IF 2 * r < d THEN {q}
        ELSE IF 2 * r > d THEN {q + 1}
        ELSE {q, q + 1}

\* ------------------------------------------------------------------------
\* BaseAgent
\* ------------------------------------------------------------------------

Credibilities == {"official", "third-party-trusted", "community"}

\* [s for s in self.sources if s.get("credibility") == "official"]
OfficialSources(sources) ==
    SelectSeq(sources, LAMBDA s : s.credibility = "official")

\* BaseAgent._calculate_confidence
calculate_confidence(sources) ==
    LET official_count == Len(OfficialSources(sources))
        total == Len(sources)
    IN  IF sources = << >> THEN "low"
        ELSE IF official_count >= 2 /\ total >= 3 THEN "high"
        ELSE IF official_count >= 1 \/ total >= 2 THEN "medium"
        ELSE "low"

\* create_structured_output with "score or 0": an absent score is stored as 0
create_structured_output_zero(result, findings, sources) ==
    { [status     |-> result.status,
       score      |-> sc,
       findings   |-> findings,
       sources    |-> sources,
       confidence |-> calculate_confidence(sources)] :
      sc \in IF result.score = None THEN {Some(0)}
             ELSE {Some(h) : h \in Round2(result.score[1], result.score[2])} }

\* BaseAgent.create_structured_output: the score is rounded to two decimals
\* (result is a fraction <<n, d>> or None), the source list is the agent's.
\* The set holds one output per value the rounding can produce.
create_structured_output(result, findings, sources) ==
    { [status     |-> result.status,
       score      |-> sc,
       findings   |-> findings,
       sources    |-> sources,
       confidence |-> calculate_confidence(sources)] :
      sc \in IF result.score = None THEN {None}
             ELSE {Some(h) : h \in Round2(result.score[1], result.score[2])} }

\* One LLM analysis step (_analyze_*): the LLM's list when it is non-empty,
\* the "not documented" finding when it is empty or unparsable, the
\* "unable to" finding when the call raises.
AnalysisStep(resp, emptyText, errorText) ==
    IF resp.raises THEN << errorText >>
    ELSE IF resp.items # << >> THEN resp.items
    ELSE << emptyText >>

\* An analysis step whose exception handler only logs (no finding is added)
AnalysisStepQuiet(resp, emptyText) ==
    IF resp.raises THEN << >>
    ELSE IF resp.items # << >> THEN resp.items
    ELSE << emptyText >>

\* An exception that leaves execute(): no output is produced
Raised(e) == [raised |-> e]

IsRaised(o) == "raised" \in DOMAIN o

\* A call that returned x, where the call can also raise
Returned(x) == [returned |-> x]

\* The replies of the LLM to one analysis prompt: a list, or an exception
LlmReplies(lists) ==
    {[raises |-> TRUE, items |-> << >>]} \cup
    {[raises |-> FALSE, items |-> l] : l \in lists}

\* ------------------------------------------------------------------------
\* ComplianceAgent
\* ------------------------------------------------------------------------

CompliancePositiveKw == {"certified", "compliant", "supports", "provides", "available"}

ComplianceNegativeKw == {"not", "unable", "unclear", "unavailable", "no"}

Compliance_analyze_certifications(resp) ==
    AnalysisStep(resp,
        "No specific security certifications documented in accessible sources",
        "Unable to verify security certifications")

Compliance_analyze_privacy(resp) ==
    AnalysisStep(resp,
        "Privacy compliance details not clearly documented",
        "Unable to verify privacy compliance")

Compliance_analyze_data_handling(resp) ==
    AnalysisStep(resp,
        "Data handling policies not clearly documented",
        "Unable to verify data handling policies")

Compliance_analyze_security_features(resp) ==
    AnalysisStep(resp,
        "Security features not clearly documented",
        "Unable to verify security features")

\* ComplianceAgent._determine_status_and_score
Compliance_determine_status_and_score(sources, findings) ==
    LET official_sources == OfficialSources(sources)
        positive == Matching(findings, CompliancePositiveKw)
        negative == Matching(findings, ComplianceNegativeKw)
    IN  IF Len(sources) = 0 \/ Len(official_sources) = 0
        THEN [status |-> "insufficient_data", score |-> None]
        ELSE IF Len(negative) > Len(positive) /\ Len(official_sources) >= 1
        THEN [status |-> "risk", score |-> << 15, 10 >>]
        ELSE IF Len(positive) > 0
        THEN [status |-> "ok",
              score  |-> IF Len(positive) >= 4 /\ Len(negative) = 0 THEN << 45, 10 >>
                         ELSE IF Len(positive) >= 3 /\ Len(negative) <= 1 THEN << 35, 10 >>
                         ELSE IF Len(positive) >= 2 THEN << 3, 1 >>
                         ELSE << 25, 10 >>]
        ELSE [status |-> "insufficient_data", score |-> None]

\* ComplianceAgent.execute after research_requirement has extended
\* self.sources: the four analysis steps, the status, the output
Compliance_execute(sources, llm) ==
    LET findings == Flatten(<< Compliance_analyze_certifications(llm[1]),
                               Compliance_analyze_privacy(llm[2]),
                               Compliance_analyze_data_handling(llm[3]),
                               Compliance_analyze_security_features(llm[4]) >>)
    IN  create_structured_output(
            Compliance_determine_status_and_score(sources, findings),
            findings, sources)

\* ------------------------------------------------------------------------
\* InteroperabilityAgent
\* ------------------------------------------------------------------------

InteropPositiveKw ==
    {"supports", "available", "provides", "native", "comprehensive", "documented"}

InteropNegativeKw == {"not", "unable", "unclear", "unavailable", "undocumented"}

\* integration_keywords, in the dict's insertion order
integration_keywords ==
    << << "okta", "Okta SSO" >>, << "slack", "Slack" >>, << "jira", "Jira" >>,
       << "snowflake", "Snowflake" >>, << "o365", "Office 365" >>,
       << "email", "Email" >>, << "api", "API" >>, << "sso", "SSO" >>,
       << "webhook", "Webhooks" >> >>

\* The second components of the pairs whose keyword occurs in the text
RECURSIVE KeywordHits(_, _)
KeywordHits(pairs, text) ==
    IF pairs = << >> THEN << >>
    ELSE (IF Contains(text, Head(pairs)[1]) THEN << Head(pairs)[2] >> ELSE << >>)
         \o KeywordHits(Tail(pairs), text)

\* InteroperabilityAgent._extract_integration_requirements
extract_integration_requirements(use_case) ==
    IF use_case = "" THEN << >>
    ELSE KeywordHits(integration_keywords, Lower(use_case))

\* specific_integrations of InteroperabilityAgent.execute
specific_integrations(use_case) ==
    IF use_case = "" THEN << >>
    ELSE KeywordHits(<< << "slack", "Slack" >>, << "jira", "Jira" >>,
                        << "snowflake", "Snowflake" >> >>, Lower(use_case))

Interop_analyze_sso(resp) ==
    AnalysisStep(resp, "SSO capabilities not clearly documented",
                       "Unable to verify SSO capabilities")

Interop_analyze_apis(resp) ==
    AnalysisStep(resp, "API documentation not accessible",
                       "Unable to verify API capabilities")

Interop_analyze_webhooks(resp) ==
    AnalysisStep(resp, "Webhook/event capabilities not documented",
                       "Unable to verify webhook capabilities")

\* InteroperabilityAgent._analyze_specific_integration
Interop_analyze_specific_integration(resp, integration_name) ==
    IF resp.raises THEN << "Unable to verify " \o integration_name \o " integration" >>
    ELSE IF resp.items # << >>
    THEN [k \in 1..Len(resp.items) |-> integration_name \o ": " \o resp.items[k]]
    ELSE << integration_name \o " integration not documented" >>

\* sum(1 for req in requirements if any(req.lower() in f.lower() for f in findings))
requirements_met(findings, requirements) ==
    Len(SelectSeq(requirements,
            LAMBDA req : \E k \in 1..Len(findings) :
                             Contains(Lower(findings[k]), Lower(req))))

\* _determine_status_and_score with the risk test reduced to the negative
\* majority (the requirements ratio is not consulted)
Interop_determine_status_and_score_no_ratio(sources, findings, requirements) ==
    LET official_sources == OfficialSources(sources)
        positive == Len(Matching(findings, InteropPositiveKw))
        negative == Len(Matching(findings, InteropNegativeKw))
        ratio_n == IF requirements # << >>
                   THEN requirements_met(findings, requirements) ELSE 1
        ratio_d == IF requirements # << >> THEN Len(requirements) ELSE 1
        score_n == 2 * (2 * positive - negative) * ratio_d + ratio_n * Len(findings)
        score_d == Len(findings) * ratio_d
    IN  IF Len(sources) = 0 \/ Len(official_sources) = 0
        THEN [status |-> "insufficient_data", score |-> None]
        ELSE IF negative > positive
        THEN [status |-> "risk", score |-> << 15, 10 >>]
        ELSE IF positive > 0
        THEN [status |-> "ok", score |-> Clamp2to5(score_n, score_d)]
        ELSE [status |-> "insufficient_data", score |-> None]

\* InteroperabilityAgent._determine_status_and_score; requirements_ratio is
\* the fraction ratio_n / ratio_d
Interop_determine_status_and_score(sources, findings, requirements) ==
    LET official_sources == OfficialSources(sources)
        positive == Len(Matching(findings, InteropPositiveKw))
        negative == Len(Matching(findings, InteropNegativeKw))
        ratio_n == IF requirements # << >>
                   THEN requirements_met(findings, requirements) ELSE 1
        ratio_d == IF requirements # << >> THEN Len(requirements) ELSE 1
        \* (positive - negative * 0.5) / len(findings) * 4.0 + ratio * 1.0
        score_n == 2 * (2 * positive - negative) * ratio_d + ratio_n * Len(findings)
        score_d == Len(findings) * ratio_d
    IN  IF Len(sources) = 0 \/ Len(official_sources) = 0
        THEN [status |-> "insufficient_data", score |-> None]
        ELSE IF negative > positive /\ 2 * ratio_n < ratio_d
        THEN [status |-> "risk", score |-> << 15, 10 >>]
        ELSE IF positive > 0
        THEN [status |-> "ok", score |-> Clamp2to5(score_n, score_d)]
        ELSE [status |-> "insufficient_data", score |-> None]

\* InteroperabilityAgent.execute after research_requirement: llm[1..3] answer
\* the SSO, API and webhook prompts, llm[4..] one prompt per specific
\* integration of the use case
Interop_execute(sources, use_case, llm) ==
    LET required == extract_integration_requirements(use_case)
        specific == specific_integrations(use_case)
        findings ==
            Flatten(<< Interop_analyze_sso(llm[1]),
                       Interop_analyze_apis(llm[2]),
                       Interop_analyze_webhooks(llm[3]) >>
                    \o [k \in 1..Len(specific) |->
                          Interop_analyze_specific_integration(llm[3 + k], specific[k])])
    IN  create_structured_output(
            Interop_determine_status_and_score(sources, findings, required),
            findings, sources)

\* ------------------------------------------------------------------------
\* AdoptionAgent
\* ------------------------------------------------------------------------

AdoptionPositiveKw ==
    {"24/7", "comprehensive", "excellent", "extensive", "robust", "available",
     "certification", "training"}

AdoptionNegativeKw == {"limited", "not", "unable", "unclear", "unavailable", "poor"}

Adoption_analyze_implementation(resp) ==
    AnalysisStep(resp,
        "Implementation timeline not clearly documented - estimate 3-6 months for mid-size deployment",
        "Unable to determine implementation timeline")

Adoption_analyze_support(resp) ==
    AnalysisStep(resp, "Support details not clearly documented",
                       "Unable to verify support options")

Adoption_analyze_training(resp) ==
    AnalysisStep(resp, "Training resources not well documented",
                       "Unable to assess training resources")

Adoption_analyze_community(resp) ==
    AnalysisStepQuiet(resp, "Community and ecosystem information limited")

\* AdoptionAgent._determine_status_and_score
Adoption_determine_status_and_score(sources, findings) ==
    LET official_sources == OfficialSources(sources)
        positive == Len(Matching(findings, AdoptionPositiveKw))
        negative == Len(Matching(findings, AdoptionNegativeKw))
    IN  IF Len(sources) = 0 \/ Len(official_sources) = 0
        THEN [status |-> "insufficient_data", score |-> None]
        ELSE IF negative > positive
        THEN [status |-> "risk", score |-> << 15, 10 >>]
        ELSE IF positive > 0
        \* (positive - negative * 0.5) / len(findings) * 5.0
        THEN [status |-> "ok",
              score  |-> Clamp2to5(5 * (2 * positive - negative), 2 * Len(findings))]
        ELSE [status |-> "insufficient_data", score |-> None]

\* AdoptionAgent.execute after research_requirement
Adoption_execute(sources, llm) ==
    LET findings == Flatten(<< Adoption_analyze_implementation(llm[1]),
                               Adoption_analyze_support(llm[2]),
                               Adoption_analyze_training(llm[3]),
                               Adoption_analyze_community(llm[4]) >>)
    IN  create_structured_output(
            Adoption_determine_status_and_score(sources, findings),
            findings, sources)

\* ------------------------------------------------------------------------
\* FinanceAgent
\* ------------------------------------------------------------------------

\* text[i:i+1]: the character at i, empty outside the text
Char(text, i) ==
    IF i \in 1..Len(text) THEN SubSeq(text, i, i) ELSE ""

DigitValue ==
    ("0" :> 0) @@ ("1" :> 1) @@ ("2" :> 2) @@ ("3" :> 3) @@ ("4" :> 4) @@
    ("5" :> 5) @@ ("6" :> 6) @@ ("7" :> 7) @@ ("8" :> 8) @@ ("9" :> 9)

IsDigit(c) == c \in DOMAIN DigitValue

\* \s of the regular expressions, for the texts used here
IsSpace(c) == c = " "

\* The last index of the longest run of digits starting at i (i - 1 if none)
DigitsEnd(text, i) ==
    IF i > Len(text) THEN i - 1 ELSE
    CHOOSE j \in (i - 1)..Len(text) :
        /\ \A k \in i..j : IsDigit(Char(text, k))
        /\ j = Len(text) \/ ~IsDigit(Char(text, j + 1))

\* The last index of the longest run of whitespace starting at i
SpacesEnd(text, i) ==
    IF i > Len(text) THEN i - 1 ELSE
    CHOOSE j \in (i - 1)..Len(text) :
        /\ \A k \in i..j : IsSpace(Char(text, k))
        /\ j = Len(text) \/ ~IsSpace(Char(text, j + 1))

RECURSIVE IntOf(_)
\* int(digits)
IntOf(digits) ==
    IF digits = "" THEN 0
    ELSE 10 * IntOf(SubSeq(digits, 1, Len(digits) - 1))
         + DigitValue[Char(digits, Len(digits))]

\* text[i:].startswith(word)
StartsAt(text, i, word) ==
    /\ i + Len(word) - 1 <= Len(text)
    /\ SubSeq(text, i, i + Len(word) - 1) = word

\* (\d+)\s*users matched at i: the digit run, optional whitespace, "users".
\* A shorter digit run cannot match (a digit would follow it), so the greedy
\* reading is the only one.
UsersAt(text, i) ==
    /\ i <= Len(text)
    /\ IsDigit(Char(text, i))
    /\ StartsAt(text, SpacesEnd(text, DigitsEnd(text, i) + 1) + 1, "users")

\* (\d+)[-...](\d+)\s*users matched at i
RangeUsersAt(text, i) ==
    /\ i <= Len(text)
    /\ IsDigit(Char(text, i))
    /\ Char(text, DigitsEnd(text, i) + 1) = "-"
    /\ UsersAt(text, DigitsEnd(text, i) + 2)

\* FinanceAgent._extract_user_count; re.search takes the leftmost match
extract_user_count(use_case) ==
    LET text == Lower(use_case)
        rangeStarts == {i \in 1..Len(text) : RangeUsersAt(text, i)}
        starts == {i \in 1..Len(text) : UsersAt(text, i)}
        Least(S) == CHOOSE i \in S : \A j \in S : i <= j
    IN  IF use_case = "" THEN 300
        ELSE IF rangeStarts # {}
        THEN LET i == Least(rangeStarts)
                 j == DigitsEnd(text, i)
             IN  (IntOf(SubSeq(text, i, j))
                  + IntOf(SubSeq(text, j + 2, DigitsEnd(text, j + 2)))) \div 2
        ELSE IF starts # {}
        THEN LET i == Least(starts)
             IN  IntOf(SubSeq(text, i, DigitsEnd(text, i)))
        ELSE 300

\* " ".join(findings)
RECURSIVE JoinSpace(_)
JoinSpace(findings) ==
    IF findings = << >> THEN ""
    ELSE IF Len(findings) = 1 THEN findings[1]
    ELSE findings[1] \o " " \o JoinSpace(Tail(findings))

\* \$(\d+)[-...]?\$?(\d+)?\s*(?:per user|/user|per month), ignoring case,
\* matched at the "$" at i.  low is the first number, [p, q] the optional
\* second number (empty when q < p).  The optional parts are read greedily:
\* giving one up leaves a character the rest of the pattern cannot match.
PriceAt(text, i) ==
    LET j == DigitsEnd(text, i + 1)
        afterDash == IF Char(text, j + 1) = "-" THEN j + 2 ELSE j + 1
        p == IF Char(text, afterDash) = "$" THEN afterDash + 1 ELSE afterDash
        q == DigitsEnd(text, p)
        tail == SpacesEnd(text, q + 1) + 1
    IN  [matches |-> /\ Char(text, i) = "$"
                     /\ j >= i + 1
                     /\ \E unit \in {"per user", "/user", "per month"} :
                            StartsAt(Lower(text), tail, unit),
         low  |-> IntOf(SubSeq(text, i + 1, j)),
         high |-> IF q >= p THEN IntOf(SubSeq(text, p, q))
                  ELSE IntOf(SubSeq(text, i + 1, j))]

\* FinanceAgent._estimate_tco: avg_monthly is (low + high) / 2, or 100 when no
\* price is found; three_year_total is round(avg_monthly * user_count * 38.4),
\* whose fraction is a multiple of 0.2 and never a tie
estimate_tco(findings, user_count) ==
    LET text == JoinSpace(findings)
        starts == {i \in 1..Len(text) : PriceAt(text, i).matches}
        first == PriceAt(text, CHOOSE i \in starts : \A j \in starts : i <= j)
        twice_avg == IF starts # {} THEN first.low + first.high ELSE 200
    IN  [three_year_total |-> (192 * twice_avg * user_count + 5) \div 10,
         user_count |-> user_count]

\* FinanceAgent.execute: the keywords that pick key strengths and risks out
\* of the findings
FinanceStrengthKw ==
    {"competitive", "transparent", "volume discount", "flexible", "included"}

FinanceRiskKw ==
    {"not available", "hidden", "additional", "requires quote", "unclear"}

\* _determine_status_and_score without min(5.0, ...) on the bonus
Finance_determine_status_and_score_uncapped(sources, findings, tco) ==
    LET official_sources == OfficialSources(sources)
        three_year_tco == tco.three_year_total
        months == tco.user_count * 36
        cost_score == IF three_year_tco < 50 * months THEN 500
                      ELSE IF three_year_tco < 100 * months THEN 400
                      ELSE IF three_year_tco < 150 * months THEN 300
                      ELSE IF three_year_tco < 200 * months THEN 250
                      ELSE 200
        transparency_bonus == IF Len(official_sources) >= 2 THEN 50 ELSE 0
    IN  IF Len(sources) = 0 \/ Len(official_sources) = 0
        THEN [status |-> "insufficient_data", score |-> None]
        ELSE IF months = 0
        THEN Raised("ZeroDivisionError")
        ELSE [status |-> "ok", score |-> << cost_score + transparency_bonus, 100 >>]

\* FinanceAgent._determine_status_and_score.  per_user_monthly is
\* three_year_total / (user_count * 36); the division raises when
\* user_count is 0.  The findings are not read.
Finance_determine_status_and_score(sources, findings, tco) ==
    LET official_sources == OfficialSources(sources)
        three_year_tco == tco.three_year_total
        months == tco.user_count * 36
        cost_score == IF three_year_tco < 50 * months THEN 500
                      ELSE IF three_year_tco < 100 * months THEN 400
                      ELSE IF three_year_tco < 150 * months THEN 300
                      ELSE IF three_year_tco < 200 * months THEN 250
                      ELSE 200
        transparency_bonus == IF Len(official_sources) >= 2 THEN 50 ELSE 0
        score == IF cost_score + transparency_bonus > 500 THEN 500
                 ELSE cost_score + transparency_bonus
    IN  IF Len(sources) = 0 \/ Len(official_sources) = 0
        THEN [status |-> "insufficient_data", score |-> None]
        ELSE IF months = 0
        THEN Raised("ZeroDivisionError")
        ELSE IF three_year_tco > 250 * months /\ Len(official_sources) = 0
        THEN [status |-> "risk", score |-> << 15, 10 >>]
        ELSE [status |-> "ok", score |-> << score, 100 >>]

Finance_analyze_pricing(resp) ==
    AnalysisStep(resp,
        "Public pricing not available - enterprise pricing requires quote",
        "Unable to determine pricing")

Finance_analyze_implementation_costs(resp) ==
    AnalysisStepQuiet(resp, "Implementation costs not publicly documented")

Finance_analyze_support_costs(resp) ==
    AnalysisStepQuiet(resp, "Support and training costs not detailed publicly")

\* FinanceAgent.execute after research_requirement
Finance_execute(sources, use_case, llm) ==
    LET user_count == extract_user_count(use_case)
        findings == Flatten(<< Finance_analyze_pricing(llm[1]),
                               Finance_analyze_implementation_costs(llm[2]),
                               Finance_analyze_support_costs(llm[3]) >>)
        result == Finance_determine_status_and_score(
                      sources, findings, estimate_tco(findings, user_count))
    IN  IF IsRaised(result) THEN {result}
        ELSE create_structured_output(result, findings, sources)

\* ------------------------------------------------------------------------
\* ComplianceAgent.execute: the requirement alignment against org_policy
\* ------------------------------------------------------------------------

RECURSIVE Replace(_, _, _)
\* text.replace(old, new): the occurrences of old from left to right
Replace(text, old, new) ==
    IF Len(text) < Len(old) THEN text
    ELSE IF SubSeq(text, 1, Len(old)) = old
    THEN new \o Replace(SubSeq(text, Len(old) + 1, Len(text)), old, new)
    ELSE SubSeq(text, 1, 1) \o Replace(SubSeq(text, 2, Len(text)), old, new)

RECURSIVE SplitOn(_, _)
\* text.split(sep) for a separator of one character
SplitOn(text, sep) ==
    LET hits == {i \in 1..Len(text) : SubSeq(text, i, i) = sep}
    IN  IF hits = {} THEN << text >>
        ELSE LET i == CHOOSE h \in hits : \A j \in hits : h <= j
             IN  << SubSeq(text, 1, i - 1) >>
                 \o SplitOn(SubSeq(text, i + 1, Len(text)), sep)

RECURSIVE Strip(_)
\* text.strip()
Strip(text) ==
    IF text = "" THEN ""
    ELSE IF IsSpace(Char(text, 1)) THEN Strip(SubSeq(text, 2, Len(text)))
    ELSE IF IsSpace(Char(text, Len(text))) THEN Strip(SubSeq(text, 1, Len(text) - 1))
    ELSE text

\* text.split(): the words between runs of whitespace
Words(text) ==
    SelectSeq(SplitOn(text, " "), LAMBDA w : w # "")

\* any(part in content for part in parts)
AnyIn(parts, content) ==
    \E i \in 1..Len(parts) : Contains(content, parts[i])

\* The three characters U+201A U+00D6 U+00B0 that the source file holds where
\* U+2161 was meant, each written with a stand-in character
MisencodedTwo == "&@$"

\* get_default_org_policy(): compliance_needs + security_needs
default_all_reqs ==
    << "SOC 2 Type II", "ISO 27001", "GDPR", "DPA (Data Processing Agreement)",
       "SSO/SAML",
       "Encryption at rest and in transit", "Audit logs", "RBAC", "MFA" >>

variations_map ==
    [k \in {"soc 2 type ii", "sso/saml", "iso 27001", "gdpr", "mfa", "rbac",
            "dpa (data processing agreement)",
            "encryption at rest and in transit", "audit logs"} |->
        CASE k = "soc 2 type ii" ->
                << "soc2", "soc 2", "soc2 type", "soc type ii", "soc 2 type 2",
                   "soc 2 (type " \o MisencodedTwo \o ")" >>
          [] k = "sso/saml" ->
                << "sso", "saml", "saml 2.0", "single sign-on", "single sign on" >>
          [] k = "iso 27001" ->
                << "iso27001", "iso/iec 27001", "iso/iec27001", "iso 27001:2013" >>
          [] k = "gdpr" -> << "general data protection regulation", "eu gdpr" >>
          [] k = "mfa" ->
                << "multi-factor", "multifactor", "two-factor", "2fa", "two factor" >>
          [] k = "rbac" ->
                << "role-based", "role based", "role based access",
                   "role-based access control" >>
          [] k = "dpa (data processing agreement)" ->
                << "dpa", "data processing agreement", "data processing addendum" >>
          [] k = "encryption at rest and in transit" ->
                << "encryption", "encrypted", "tls", "ssl", "aes-256",
                   "encryption at rest", "encryption in transit" >>
          [] OTHER -> << "audit log", "audit logging", "audit trail",
                         "audit trail logs" >>]

\* The body of the mutated matcher: the requirement's own text must appear
requirement_matched_literal(req, combined_content) ==
    Contains(combined_content, Lower(req))

\* The body of `for req in all_reqs`: the four strategies, in order
requirement_matched(req, combined_content) ==
    LET req_lower == Lower(req)
        normalized_req ==
            Replace(Replace(Replace(req_lower, "soc2", "soc 2"),
                            "type " \o MisencodedTwo, "type ii"),
                    "type 2", "type ii")
        plain == Replace(Replace(Replace(normalized_req, "(", ""), ")", ""), "/", " ")
        \* Strategy 1: the parts around "/"
        parts == SplitOn(normalized_req, "/")
        stripped == [i \in 1..Len(parts) |-> Strip(parts[i])]
        by_parts ==
            /\ Contains(normalized_req, "/")
            /\ AnyIn(SelectSeq(stripped, LAMBDA p : Len(p) > 2), combined_content)
        \* Strategy 2: the variations map
        req_normalized == Strip(plain)
        by_variations ==
            /\ req_normalized \in DOMAIN variations_map
            /\ AnyIn(variations_map[req_normalized], combined_content)
        \* Strategy 3: two key parts of a phrase
        key_parts == SelectSeq(Words(Replace(plain, "-", " ")), LAMBDA p : Len(p) > 2)
        matches == Cardinality({i \in 1..Len(key_parts) :
                                    Contains(combined_content, key_parts[i])})
        by_phrase ==
            /\ Len(Words(normalized_req)) > 1
            /\ Len(key_parts) >= 2
            /\ matches >= (IF Len(key_parts) < 2 THEN Len(key_parts) ELSE 2)
        \* Strategy 4: one keyword
        meaningful_keywords == SelectSeq(Words(plain), LAMBDA kw : Len(kw) > 2)
        by_keyword == AnyIn(meaningful_keywords, combined_content)
    IN  by_parts \/ by_variations \/ by_phrase \/ by_keyword

\* s.get("content", "").lower()[:5000]
ContentHead(content) ==
    LET lowered == Lower(content)
    IN  SubSeq(lowered, 1, IF Len(lowered) < 5000 THEN Len(lowered) ELSE 5000)

\* normalized_findings + " " + normalized_sources
combined_content_of(findings, contents) ==
    Lower(JoinSpace(findings)) \o " "
    \o JoinSpace([i \in 1..Len(contents) |-> ContentHead(contents[i])])

\* requirements_alignment and unmet_requirements as execute() builds them
requirements_alignment(all_reqs, findings, contents) ==
    LET combined_content == combined_content_of(findings, contents)
        met == {i \in 1..Len(all_reqs) :
                    requirement_matched(all_reqs[i], combined_content)}
    IN  [requirements_alignment |->
            [req \in {all_reqs[i] : i \in 1..Len(all_reqs)} |->
                IF \E i \in met : all_reqs[i] = req /\ \A j \in (i + 1)..Len(all_reqs) :
                                      all_reqs[j] # req
                THEN "met" ELSE "unmet"],
         unmet_requirements |->
            SelectSeq(all_reqs, LAMBDA req : ~requirement_matched(req, combined_content))]

\* ------------------------------------------------------------------------
\* Pipelines: scoring, comparison, checklist
\* ------------------------------------------------------------------------

Dims == << "compliance", "interoperability", "finance", "adoption" >>

DimSet == {"compliance", "interoperability", "finance", "adoption"}

\* agent_outputs[d].get("score"): None when the key is missing
ScoreOf(agent_outputs, d) ==
    IF d \in DOMAIN agent_outputs THEN agent_outputs[d].score ELSE None

\* JSON values as json.loads builds them: 4 is an int, 4.5 a float; numbers
\* are kept in tenths
JsonInt(n) == [type |-> "int", tenths |-> 10 * n]

JsonFloat(tenths) == [type |-> "float", tenths |-> tenths]

JsonString(text) == [type |-> "str", text |-> text]

JsonNull == [type |-> "NoneType"]

JsonDict(items) == [type |-> "dict", items |-> items]

\* A key the object does not have
JsonMissing == [type |-> "missing"]

\* max(0, min(5, x)) of a number; min and max keep their first argument
\* unless a later one is strictly smaller (larger)
Clamp0to5(x) ==
    IF x.tenths >= 50 THEN JsonInt(5)
    ELSE IF x.tenths <= 0 THEN JsonInt(0)
    ELSE x

ProfileDims == {"security", "cost", "interoperability", "adoption"}

\* The defaults of RequirementProfileAgent.execute, as JSON values
default_profile_importance == [dim \in ProfileDims |-> JsonInt(3)]

\* RequirementProfileAgent.execute: the dimension_importance it returns.
\* An empty use case gives the defaults. _call_llm_json gives {} for text
\* that is not JSON; result.get("dimension_importance", {}) is validated key
\* by key (missing -> 3, otherwise max(0, min(5, x))) in place, keys it does
\* not know stay; any exception (the call raising, a value that cannot be
\* compared with 5, a dimension_importance that is no dict) gives the defaults.
RequirementProfile_execute(use_case, reply) ==
    LET dim_importance ==
            IF reply.malformed \/ reply.dimension_importance = JsonMissing
            THEN JsonDict(<< >>)
            ELSE reply.dimension_importance
        items == dim_importance.items
        raisesTypeError ==
            \/ dim_importance.type # "dict"
            \/ \E dim \in ProfileDims \cap DOMAIN items :
                   items[dim].type \notin {"int", "float"}
    IN  IF use_case = "" THEN default_profile_importance
        ELSE IF reply.raises THEN default_profile_importance
        ELSE IF raisesTypeError THEN default_profile_importance
        ELSE [dim \in ProfileDims \cup DOMAIN items |->
                IF dim \notin DOMAIN items THEN JsonInt(3)
                ELSE IF dim \in ProfileDims THEN Clamp0to5(items[dim])
                ELSE items[dim]]

\* dimension_importance as the assessment pipeline reads it from the profile,
\* for a profile of whole numbers
default_importance ==
    [security |-> 3, cost |-> 3, interoperability |-> 3, adoption |-> 3]

Weights(profile) ==
    [dim \in ProfileDims |-> profile[dim].tenths \div 10]

\* The weighted score with an absent score counted as 0: every dimension
\* keeps its weight in the divisor
weighted_total_score_diluted(agent_outputs, dimension_importance) ==
    LET Value(d) == IF agent_outputs[d].score # None THEN agent_outputs[d].score[1] ELSE 0
        total_weight == dimension_importance["security"] + dimension_importance["cost"]
                      + dimension_importance["interoperability"]
                      + dimension_importance["adoption"]
        weighted_sum == Value("compliance") * dimension_importance["security"]
                      + Value("finance") * dimension_importance["cost"]
                      + Value("interoperability") * dimension_importance["interoperability"]
                      + Value("adoption") * dimension_importance["adoption"]
        plain_sum == Value("compliance") + Value("finance") + Value("interoperability")
                   + Value("adoption")
    IN  IF total_weight > 0
        THEN {Some(h) : h \in Round2(weighted_sum, 100 * total_weight)}
        ELSE {Some(h) : h \in Round2(plain_sum, 400)}

\* The weighted score with the plain sum, not the plain mean, when the
\* weights of the scored dimensions sum to 0
weighted_total_score_unaveraged(agent_outputs, dimension_importance) ==
    LET Has(d) == agent_outputs[d].score # None
        Value(d) == IF Has(d) THEN agent_outputs[d].score[1] ELSE 0
        Weight(d, key) == IF Has(d) THEN dimension_importance[key] ELSE 0
        total_weight == Weight("compliance", "security") + Weight("finance", "cost")
                      + Weight("interoperability", "interoperability")
                      + Weight("adoption", "adoption")
        weighted_sum == Value("compliance") * Weight("compliance", "security")
                      + Value("finance") * Weight("finance", "cost")
                      + Value("interoperability") * Weight("interoperability", "interoperability")
                      + Value("adoption") * Weight("adoption", "adoption")
        plain_sum == Value("compliance") + Value("finance") + Value("interoperability")
                   + Value("adoption")
    IN  IF \A d \in {"compliance", "finance", "interoperability", "adoption"} : ~Has(d)
        THEN {None}
        ELSE IF total_weight > 0
        THEN {Some(h) : h \in Round2(weighted_sum, 100 * total_weight)}
        ELSE {Some(h) : h \in Round2(plain_sum, 100)}

\* run_assessment_pipeline_async, the weighted score of one vendor: the
\* (score, weight) pairs of the dimensions whose score is not None, their
\* weighted mean, the plain mean when the weights sum to 0, None when no
\* dimension has a score; total_score is round(weighted, 2).
weighted_total_score(agent_outputs, dimension_importance) ==
    LET s == agent_outputs["compliance"].score
        c == agent_outputs["finance"].score
        i == agent_outputs["interoperability"].score
        a == agent_outputs["adoption"].score
        scored == (IF s # None THEN << << s[1], dimension_importance["security"] >> >> ELSE << >>)
               \o (IF c # None THEN << << c[1], dimension_importance["cost"] >> >> ELSE << >>)
               \o (IF i # None THEN << << i[1], dimension_importance["interoperability"] >> >> ELSE << >>)
               \o (IF a # None THEN << << a[1], dimension_importance["adoption"] >> >> ELSE << >>)
        Sum4(f) == (IF Len(scored) >= 1 THEN f[1] ELSE 0) + (IF Len(scored) >= 2 THEN f[2] ELSE 0)
                 + (IF Len(scored) >= 3 THEN f[3] ELSE 0) + (IF Len(scored) >= 4 THEN f[4] ELSE 0)
        total_weight == Sum4([k \in 1..Len(scored) |-> scored[k][2]])
        weighted_sum == Sum4([k \in 1..Len(scored) |-> scored[k][1] * scored[k][2]])
        plain_sum == Sum4([k \in 1..Len(scored) |-> scored[k][1]])
    IN  IF scored = << >> THEN {None}
        ELSE IF total_weight > 0
        THEN {Some(h) : h \in Round2(weighted_sum, 100 * total_weight)}
        ELSE {Some(h) : h \in Round2(plain_sum, 100 * Len(scored))}

\* run_application_pipeline_async, total score: sum() over the four scores
\* raises TypeError when one of them is None
application_total_score(agent_outputs) ==
    LET scores == [k \in 1..4 |-> ScoreOf(agent_outputs, Dims[k])]
    IN  IF \E k \in 1..4 : scores[k] = None
        THEN {Raised("TypeError")}
        ELSE {Returned(Some(h)) : h \in Round2(scores[1][1] + scores[2][1]
                                                + scores[3][1] + scores[4][1], 400)}

\* ComparisonAnalysisAgent._empty_analysis
empty_analysis ==
    [final_recommendation |->
        Some([recommended_vendor_id |-> "",
              short_reason |-> "Insufficient data for recommendation"])]

\* ComparisonAnalysisAgent._check_insufficient_data_by_vendor
check_insufficient_data_by_vendor(vendors) ==
    [k \in 1..Len(vendors) |->
        LET comp == vendors[k].agent_outputs["compliance"]
        IN  \/ comp.status = "insufficient_data"
            \/ comp.confidence = "low" /\ (comp.score = None \/ comp.score[1] < 200)]

\* ComparisonAnalysisAgent.execute: the analysis is the LLM's reply, passed
\* through; all_insufficient is computed and reported in an event only.
\* A failed call gives the empty analysis.
Comparison_execute(vendors, reply) ==
    IF vendors = << >> THEN empty_analysis
    ELSE IF reply.raises THEN empty_analysis
    ELSE [final_recommendation |-> reply.final_recommendation]

\* recommendation of run_assessment_pipeline_async, from the analysis
recommendation_of(analysis) ==
    LET final_rec == analysis.final_recommendation
    IN  IF final_rec = None
        THEN [vendor_id |-> "", reason |-> "No recommendation available"]
        ELSE [vendor_id |-> final_rec[1].recommended_vendor_id,
              reason |-> final_rec[1].short_reason]

\* list[:n]
Take(list, n) ==
    SubSeq(list, 1, IF Len(list) < n THEN Len(list) ELSE n)

\* generate_contextual_checklist, the items decided by confidence and score
\* (the items chosen by the wording of risks are left out).  The comparison
\* adoption.get("score", 0) < 3.0 raises TypeError when the score is None.
generate_contextual_checklist(vendors, recommended_vendor_id) ==
    LET found == {k \in 1..Len(vendors) : vendors[k].id = recommended_vendor_id}
        recommended_vendor == vendors[CHOOSE k \in found : \A j \in found : k <= j]
        outputs == recommended_vendor.agent_outputs
        low == SelectSeq(vendors,
                   LAMBDA v : v.agent_outputs["compliance"].confidence = "low")
    IN  IF recommended_vendor_id = "" \/ found = {}
        THEN Returned(Take(<< "request compliance pack" >>
                  \o [k \in 1..Len(low) |-> "obtain documentation: " \o low[k].id]
                  \o << "re-evaluate all vendors" >>, 5))
        ELSE IF outputs["adoption"].score = None
        THEN Raised("TypeError")
        ELSE Returned(
                << "review risk analysis: " \o recommended_vendor.id >>
                \o (IF outputs["finance"].confidence = "low"
                    THEN << "obtain pricing quote" >> ELSE << >>)
                \o (IF outputs["adoption"].score[1] < 300
                    THEN << "change management plan" >> ELSE << >>)
                \o << "phased rollout" >>)

\* SummaryAgent.execute (application pipeline): sum() over the four scores
\* raises TypeError on a None score, before the guarded LLM call; a failed
\* call gives "Evaluation incomplete", a reply without a recommendation gets
\* one from the mean score
Summary_execute(agent_outputs, reply) ==
    LET scores == [k \in 1..4 |-> ScoreOf(agent_outputs, Dims[k])]
        total4 == scores[1][1] + scores[2][1] + scores[3][1] + scores[4][1]
    IN  IF \E k \in 1..4 : scores[k] = None THEN Raised("TypeError")
        ELSE IF reply.raises
        THEN [recommendation |-> "Evaluation incomplete",
              onboarding_checklist |-> << "Complete vendor evaluation" >>]
        ELSE [recommendation |->
                 IF reply.recommendation # None THEN reply.recommendation[1]
                 ELSE IF total4 >= 1600 THEN "Go - Strong vendor profile across all dimensions"
                 ELSE IF total4 >= 1200 THEN "Proceed with Caution - Address identified gaps"
                 ELSE "No-go - Significant concerns identified",
              onboarding_checklist |->
                 << "Complete security assessment", "Negotiate contract terms",
                    "Plan technical integration" >>]

\* ------------------------------------------------------------------------
\* Inputs of the evaluators: sources by credibility, LLM replies, use cases
\* ------------------------------------------------------------------------

MaxSources == 3

SourcePool ==
    << [url |-> "https://docs.vendor.example/security", credibility |-> "official"],
       [url |-> "https://www.vendor.example/pricing", credibility |-> "official"],
       [url |-> "https://www.g2.com/products/vendor", credibility |-> "third-party-trusted"],
       [url |-> "https://www.reddit.com/r/sysadmin", credibility |-> "community"] >>

RECURSIVE SubLists(_)
\* The sublists of a list, in the list's order
SubLists(list) ==
    IF list = << >> THEN {<< >>}
    ELSE LET rest == SubLists(Tail(list))
         IN  rest \cup {<< Head(list) >> \o l : l \in rest}

\* What self.sources can hold when the status is determined
SourceLists ==
    {l \in SubLists(SourcePool) : Len(l) <= MaxSources}

UseCases ==
    {"", "ITSM rollout with Okta and Slack for 200-400 users", "API pilot, 0 users yet"}

ComplianceLlm ==
    LlmReplies({<< >>, << "SOC 2 Type II: certified by independent auditor" >>,
                << "SOC 2 Type II: certified by independent auditor",
                   "ISO 27001: audit not yet completed" >>})
    \X LlmReplies({<< >>, << "GDPR compliant, DPA available" >>,
                   << "HIPAA BAA on request" >>})
    \X LlmReplies({<< >>, << "Provides data deletion within 30 days" >>,
                   << "Customer owns all data" >>})
    \X LlmReplies({<< >>, << "Supports SSO via SAML 2.0" >>,
                   << "Supports MFA, no RBAC" >>})

InteropLlm ==
    LlmReplies({<< >>, << "Supports SAML 2.0 and Okta SSO" >>, << "OAuth 2.0" >>})
    \X LlmReplies({<< >>, << "REST API available, comprehensive SDKs" >>,
                   << "GraphQL not offered" >>})
    \X LlmReplies({<< >>, << "Native outbound webhooks" >>})

InteropSpecificLlm ==
    LlmReplies({<< >>, << "Native app in marketplace" >>})

FinanceLlm ==
    LlmReplies({<< >>, << "$40 per user billed annually" >>,
                << "$90-$130/user for enterprise" >>,
                << "Starts at $300 per month" >>})
    \X LlmReplies({<< >>, << "One-time setup fee" >>})
    \X LlmReplies({<< >>, << "Premium support is additional" >>})

AdoptionLlm ==
    LlmReplies({<< >>, << "Go-live in 6-8 weeks" >>})
    \X LlmReplies({<< >>, << "24/7 phone and chat support" >>,
                   << "Email support during business hours" >>})
    \X LlmReplies({<< >>, << "Extensive self-paced courses" >>,
                   << "Onboarding videos" >>})
    \X LlmReplies({<< >>, << "Active user forum" >>,
                   << "Comprehensive partner ecosystem" >>})

\* ------------------------------------------------------------------------
\* NemotronClient.search_with_followup: the tiered collection of sources
\* ------------------------------------------------------------------------

\* VENDOR_DOMAINS, the entries used here
VENDOR_DOMAINS ==
    [servicenow |-> << "servicenow.com", "docs.servicenow.com" >>,
     salesforce |-> << "salesforce.com", "help.salesforce.com",
                       "developer.salesforce.com" >>]

COMMUNITY_DOMAINS ==
    << "reddit.com", "medium.com", "dev.to", "quora.com", "stackexchange.com",
       "stackoverflow.com", "community.", "forum.", "discuss.", "youtube.com",
       "twitter.com", "facebook.com", "linkedin.com/pulse" >>

\* NemotronClient._is_noise_domain
is_noise_domain(url) == AnyIn(COMMUNITY_DOMAINS, Lower(url))

\* NemotronClient._judge_source_credibility
judge_source_credibility(url, vendor_name, vendor_domain) ==
    LET url_lower == Lower(url)
        vendor_lower == Replace(Replace(Lower(vendor_name), " ", ""), "-", "")
        trusted_domains == << "gartner.com", "forrester.com", "g2.com", "capterra.com",
                              "techcrunch.com", "zdnet.com", "computerworld.com",
                              "infoworld.com" >>
    IN  IF vendor_domain # "" /\ Contains(url_lower, vendor_domain) THEN "official"
        ELSE IF Contains(Replace(url_lower, "-", ""), vendor_lower) THEN "official"
        ELSE IF AnyIn(trusted_domains, url_lower) THEN "third-party-trusted"
        ELSE "community"

\* known_domains[:n], search_results[:n]
Prefix(list, n) == SubSeq(list, 1, IF Len(list) < n THEN Len(list) ELSE n)

\* vendor_name.lower().split()[0]
vendor_key_of(vendor_name) == Words(Lower(vendor_name))[1]

\* VENDOR_DOMAINS.get(vendor_key, [vendor_domain])
known_domains_of(vendor_name, vendor_domain) ==
    IF vendor_key_of(vendor_name) \in DOMAIN VENDOR_DOMAINS
    THEN VENDOR_DOMAINS[vendor_key_of(vendor_name)]
    ELSE << vendor_domain >>

\* "Error fetching URL" in content or len(content) < 100, for what fetch_url
\* returned: an error text, or the text of the page with its length
Unusable(content) == content.error \/ content.length < 100

RECURSIVE CollectResults(_, _, _, _)
\* One `for result in ...` loop of search_with_followup over the results it
\* takes: an empty or noise URL is skipped, with skip_collected a URL already
\* in sources is skipped, an unusable body is skipped, anything else is
\* appended with its credibility
CollectResults(results, sources, skip_collected, env) ==
    IF results = << >> THEN sources
    ELSE LET url == Head(results)
             skipped ==
                \/ url = ""
                \/ is_noise_domain(url)
                \/ skip_collected /\ \E i \in 1..Len(sources) : sources[i].url = url
                \/ Unusable(env.fetch_url[url])
             source == [url |-> url,
                        credibility |-> judge_source_credibility(
                                            url, env.vendor_name, env.vendor_domain)]
         IN  CollectResults(Tail(results),
                            IF skipped THEN sources ELSE Append(sources, source),
                            skip_collected, env)

\* The body of the mutated collector: the scoped results are not cut to two
Scoped_uncut(search_results) == search_results

\* search_results[:2]
Scoped(search_results) == Prefix(search_results, 2)

RECURSIVE ScopedTier(_, _, _, _)
\* Strategy 1: one site-restricted search per domain of known_domains[:2],
\* the top 2 results of each collected without a look at what is collected.
\* The searches issued are recorded with what each added.
ScopedTier(domains, searched, sources, env) ==
    IF Len(searched) = Len(domains) THEN [sources |-> sources, searches |-> searched]
    ELSE LET n == Len(searched) + 1
             after == CollectResults(Scoped(env.search_web.scoped[n]), sources,
                                     FALSE, env)
         IN  ScopedTier(domains,
                        Append(searched,
                               [query |-> "site:" \o domains[n] \o " " \o env.initial_query,
                                kept |-> Len(after) - Len(sources)]),
                        after, env)

\* search_with_followup: strategy 1, then the broader search when fewer than
\* 2 official sources were collected
search_with_followup(env) ==
    LET vendor_domain == env.vendor_domain
        known_domains == known_domains_of(env.vendor_name, vendor_domain)
        tier1 == ScopedTier(Prefix(known_domains, 2), << >>, << >>, env)
        official_count == Len(OfficialSources(tier1.sources))
        after == CollectResults(Prefix(env.search_web.broader, 3), tier1.sources,
                                TRUE, env)
    IN  IF official_count < 2
        THEN [sources |-> after,
              searches |-> Append(tier1.searches,
                                  [query |-> env.vendor_name \o " " \o env.initial_query,
                                   kept |-> Len(after) - Len(tier1.sources)])]
        ELSE tier1

\* ------------------------------------------------------------------------
\* Inputs of the requirement alignment
\* ------------------------------------------------------------------------

MaxFindings == 2

FindingPool ==
    {"supports SAML 2.0 login",
     "SSO support available",
     "SOC2 Type 2 certified since 2023",
     "soc2 type ii certified",
     "SOC 2 (Type " \o ROMAN_NUMERAL_TWO \o ") certification",
     "single sign-on via Okta",
     "Type II audit scheduled",
     "No certification information available"}

\* The findings lists of up to MaxFindings findings
FindingLists ==
    UNION {[1..n -> FindingPool] : n \in 0..MaxFindings}

\* The content of self.sources
SourceContents ==
    {<< >>, << "" >>, << "Okta SSO integration guide", "Trust center: ISO/IEC 27001" >>}

\* org_policy as the application pipeline passes it, and absent (assessment)
RequirementLists == {<< >>, default_all_reqs}

MatchCalls ==
    {[agent |-> "requirements", all_reqs |-> all_reqs, findings |-> findings,
      contents |-> contents] :
        all_reqs \in RequirementLists, findings \in FindingLists,
        contents \in SourceContents}

\* ------------------------------------------------------------------------
\* Inputs of search_with_followup
\* ------------------------------------------------------------------------

\* The vendors: name, website and _extract_base_domain(website)
CollectVendors ==
    {[vendor_name |-> "ServiceNow", base_website |-> "https://www.servicenow.com",
      vendor_domain |-> "servicenow.com"],
     [vendor_name |-> "Salesforce Inc", base_website |-> "https://www.salesforce.com",
      vendor_domain |-> "salesforce.com"],
     [vendor_name |-> "Acme Desk", base_website |-> "https://acmedesk.example",
      vendor_domain |-> "acmedesk.example"]}

\* The URLs search results name; a result may carry no URL
ResultUrls ==
    {"https://docs.servicenow.com/sso", "https://www.servicenow.com/trust",
     "https://www.gartner.com/reviews/itsm", "https://www.zdnet.com/article/itsm",
     "https://www.infoworld.com/itsm", "https://blog.example.org/itsm",
     "https://wiki.example.net/saml", "https://www.reddit.com/r/sysadmin", ""}

\* What search_web returns for a site-restricted query (max_results=3)
ScopedResults ==
    {<< >>,
     << "https://docs.servicenow.com/sso" >>,
     << "https://docs.servicenow.com/sso", "https://www.servicenow.com/trust",
        "https://www.gartner.com/reviews/itsm" >>,
     << "https://www.gartner.com/reviews/itsm", "https://blog.example.org/itsm",
        "https://www.servicenow.com/trust" >>,
     << "https://www.zdnet.com/article/itsm", "https://wiki.example.net/saml",
        "https://www.infoworld.com/itsm" >>,
     << "https://www.reddit.com/r/sysadmin", "", "https://www.servicenow.com/trust" >>}

\* What search_web returns for the broader query (max_results=5)
BroaderResults ==
    {<< >>,
     << "https://www.infoworld.com/itsm", "https://docs.servicenow.com/sso",
        "https://www.servicenow.com/trust", "https://www.gartner.com/reviews/itsm" >>,
     << "https://www.infoworld.com/itsm", "https://www.infoworld.com/itsm",
        "https://docs.servicenow.com/sso", "https://www.servicenow.com/trust",
        "https://blog.example.org/itsm" >>,
     << "https://www.reddit.com/r/sysadmin", "https://www.servicenow.com/trust",
        "", "https://wiki.example.net/saml", "https://www.zdnet.com/article/itsm" >>}

PageText == [error |-> FALSE, length |-> 8000]

ErrorText == [error |-> TRUE, length |-> 27]

ShortText == [error |-> FALSE, length |-> 40]

\* What fetch_url returns for each URL: every page, or an error for one URL,
\* or a body under 100 characters for one URL
FetchOutcomes ==
    {[url \in ResultUrls \ {""} |-> PageText]}
    \cup {[url \in ResultUrls \ {""} |-> IF url = bad THEN ErrorText ELSE PageText] :
            bad \in {"https://docs.servicenow.com/sso", "https://blog.example.org/itsm"}}
    \cup {[url \in ResultUrls \ {""} |->
            IF url = "https://www.gartner.com/reviews/itsm" THEN ShortText ELSE PageText]}

CollectCalls ==
    {[agent |-> "search_with_followup",
      env |-> [vendor_name |-> vendor.vendor_name, vendor_domain |-> vendor.vendor_domain,
               initial_query |-> "SSO SAML",
               search_web |-> [scoped |-> << first, second >>, broader |-> broader],
               fetch_url |-> fetch]] :
        vendor \in CollectVendors, first \in ScopedResults, second \in ScopedResults,
        broader \in BroaderResults, fetch \in FetchOutcomes}

\* ------------------------------------------------------------------------
\* Inputs of the pipelines
\* ------------------------------------------------------------------------

MaxVendors == 2

VendorId(k) == "vendor-" \o ToString(k)

\* What search_with_followup returns to one research_requirement call
OwnCollections == {<< >>, << SourcePool[1] >>}

Reply(list) == [raises |-> FALSE, items |-> list]

Down == [raises |-> TRUE, items |-> << >>]

\* The LLM during one agent invocation: it answers every prompt of the
\* agent, or every call fails
PipelineLlm ==
    [compliance |->
        {<< Reply(<< "SOC 2 Type II: certified by independent auditor" >>),
            Reply(<< "GDPR compliant, DPA available" >>),
            Reply(<< "Provides data deletion within 30 days" >>),
            Reply(<< "Supports SSO via SAML 2.0" >>) >>,
         << Down, Down, Down, Down >>},
     interoperability |->
        {<< Reply(<< "Supports SAML 2.0 and Okta SSO" >>),
            Reply(<< "REST API available, comprehensive SDKs" >>),
            Reply(<< "Native outbound webhooks" >>),
            Reply(<< "Native app in marketplace" >>) >>,
         << Down, Down, Down, Down >>},
     finance |->
        {<< Reply(<< "$40 per user billed annually" >>),
            Reply(<< "One-time setup fee" >>),
            Reply(<< "Premium support is additional" >>) >>,
         << Down, Down, Down >>},
     adoption |->
        {<< Reply(<< "Go-live in 6-8 weeks" >>),
            Reply(<< "24/7 phone and chat support" >>),
            Reply(<< "Extensive self-paced courses" >>),
            Reply(<< "Comprehensive partner ecosystem" >>) >>,
         << Down, Down, Down, Down >>}]

\* The LLM's replies to the requirement profile prompt during a pipeline
\* run: a failed call, an object without dimension_importance, whole numbers
\* out of range
ProfileDown ==
    [raises |-> TRUE, malformed |-> FALSE, dimension_importance |-> JsonMissing]

ProfileReplies ==
    {ProfileDown,
     [raises |-> FALSE, malformed |-> FALSE, dimension_importance |-> JsonMissing],
     [raises |-> FALSE, malformed |-> FALSE,
      dimension_importance |->
          JsonDict([security |-> JsonInt(7), cost |-> JsonInt(-1),
                    interoperability |-> JsonInt(2), adoption |-> JsonInt(0)])]}

\* The values the reply can give a dimension, and the key left out
ProfileValues ==
    {JsonMissing, JsonInt(-1), JsonInt(4), JsonInt(7), JsonFloat(45), JsonFloat(72),
     JsonString("high"), JsonNull}

\* Every reply to the requirement profile prompt: a failed call, text that
\* is not JSON, an object without dimension_importance or with null for it,
\* and objects giving each dimension one of ProfileValues, with and without
\* a key of their own
AllProfileReplies ==
    {ProfileDown,
     [raises |-> FALSE, malformed |-> TRUE, dimension_importance |-> JsonMissing],
     [raises |-> FALSE, malformed |-> FALSE, dimension_importance |-> JsonMissing],
     [raises |-> FALSE, malformed |-> FALSE, dimension_importance |-> JsonNull]}
    \cup
    UNION {{[raises |-> FALSE, malformed |-> FALSE,
             dimension_importance |->
                JsonDict([dim \in {d \in ProfileDims : given[d] # JsonMissing}
                                  \cup extra |->
                            IF dim \in ProfileDims THEN given[dim] ELSE JsonInt(9)])] :
              extra \in {{}, {"performance"}}} :
           given \in [ProfileDims -> ProfileValues]}

\* The LLM's replies to the comparison prompt: a failure, a reply without a
\* final recommendation, no vendor, one of the vendors, or an id that no
\* vendor of the evaluation has
ComparisonReplies(vendors) ==
    {[raises |-> TRUE, final_recommendation |-> None],
     [raises |-> FALSE, final_recommendation |-> None],
     [raises |-> FALSE,
      final_recommendation |->
         Some([recommended_vendor_id |-> "",
               short_reason |-> "No safe recommendation possible"])],
     [raises |-> FALSE,
      final_recommendation |->
         Some([recommended_vendor_id |-> VendorId(Len(vendors) + 1),
               short_reason |-> "Strongest overall profile"])]}
    \cup
    {[raises |-> FALSE,
      final_recommendation |->
         Some([recommended_vendor_id |-> vendors[k].id,
               short_reason |-> "Best fit for the use case"])] :
        k \in 1..Len(vendors)}

\* The LLM's replies to the summary prompt of the application pipeline
SummaryReplies ==
    {[raises |-> TRUE, recommendation |-> None],
     [raises |-> FALSE, recommendation |-> None],
     [raises |-> FALSE, recommendation |-> Some("Go - proceed to contract")]}

PipelineUseCases ==
    {"ITSM rollout with Okta and Slack for 200-400 users", "API pilot, 0 users yet"}

\* RequirementProfileAgent.execute invoked on its own
ProfileCalls ==
    {[agent |-> "requirement_profile", use_case |-> use_case, reply |-> reply] :
        use_case \in {""} \cup PipelineUseCases, reply \in AllProfileReplies}

\* ------------------------------------------------------------------------
\* search_client: cache, throttle and lock of search_web
\* ------------------------------------------------------------------------

\* The minimum interval between two upstream requests, as configured, in
\* ticks of the clock (the default of 1.1 s is two ticks of 0.55 s)
SEARCH_MIN_INTERVAL == 2

MaxCallers == 3

MaxClock == 6

Callers == 1..MaxCallers

\* What the callers search for, and the site hints they pass (None, "" or a site)
Queries == {"ServiceNow pricing", "Jira API documentation", "Salesforce SSO SAML"}

SiteHints == {None, Some("")}

\* cache_key = (query, max_results, site_hint or "")
cache_key(query, max_results, site_hint) ==
    << query, max_results, IF site_hint = None THEN "" ELSE site_hint[1] >>

AllKeys == {cache_key(query, 5, site_hint) : query \in Queries, site_hint \in SiteHints}

\* The environment the configuration is read from at each call
SearchEnvs ==
    {[SEARCH_PROVIDER |-> provider, BRAVE_KEY |-> key] :
        provider \in {"Brave", "duckduckgo"}, key \in {"", "BSA-key"}}

get_search_provider(env) == Lower(env.SEARCH_PROVIDER)

get_brave_api_key(env) == env.BRAVE_KEY

\* What the upstream request can end with: a response with results or
\* without, an HTTP error status, a timeout, a transport error
Replies ==
    {[kind |-> "200", results |-> << "result" >>],
     [kind |-> "200", results |-> << >>],
     [kind |-> "401", results |-> << >>],
     [kind |-> "403", results |-> << >>],
     [kind |-> "429", results |-> << >>],
     [kind |-> "500", results |-> << >>],
     [kind |-> "timeout", results |-> << >>],
     [kind |-> "transport error", results |-> << >>]}

\* _brave_search after the request: the results of a good response, [] from
\* both exception handlers
brave_search_results(reply) ==
    IF reply.kind = "200" THEN reply.results ELSE << >>

\* _throttle_if_needed without a sleep
sleep_time_none(now, last) == 0

\* _throttle_if_needed: how long it sleeps
sleep_time(now, last) ==
    IF now - last < SEARCH_MIN_INTERVAL THEN SEARCH_MIN_INTERVAL - (now - last) ELSE 0

InCache(cache_, key) == cache_[key] # None

\* The second look into the cache, under the lock, left out
InCacheUnderLock_skipped(cache_, key) == FALSE

\* search_web, under the lock: "if cache_key in _cache"
InCacheUnderLock(cache_, key) == InCache(cache_, key)

\* Only a non-empty result list is cached
cache_store_nonempty(cache_, key, results) ==
    IF results = << >> THEN cache_ ELSE [cache_ EXCEPT ![key] = Some(results)]

\* _cache[cache_key] = results
cache_store(cache_, key, results) ==
    [cache_ EXCEPT ![key] = Some(results)]

\* ------------------------------------------------------------------------
\* State
\* ------------------------------------------------------------------------

VARIABLES
    evalCall,     \* the last evaluator invocation: agent, use case, sources, LLM replies
    evalResult,   \* what that invocation returned (an output, or a raised exception)
    evaluation,   \* the evaluation document in the database
    pc,           \* where the pipeline is
    idx,          \* the vendor being evaluated (position in the vendor list)
    agentSources, \* self.sources of each dimension agent
    collected,    \* what each (vendor, dimension) invocation collected itself
    agent_outputs,        \* the outputs of the current vendor so far
    updated_vendors,      \* the vendors scored so far
    dimension_importance, \* the weights in use
    clock,            \* time.time(), in ticks
    cache,            \* _cache: for each key None, or the result list stored
    last_request_ts,  \* _last_request_ts
    request_lock,     \* _request_lock: its holder (0 when free) and the tasks waiting
    calls,            \* the search_web call of each caller
    searchEnv,        \* the environment variables
    upstream,         \* the upstream requests issued so far, by key
    searchHistory,    \* what happened: cache cleared, failures, first call, last return
    endpoint,         \* the route of workflows.py that was called
    generator,        \* event_generator of the stream: where it is
    workflow_task,    \* the task running run_workflow: where it is
    event_queue,      \* event_queue: the events put and not yet taken
    published,        \* every event put on event_queue so far, in order
    frames,           \* what event_generator has yielded so far, in order
    invoked,          \* the execute() bodies of dimension agents entered so far
    pipeline_runs,    \* how often the pipeline function was called
    outcome,          \* how the pipeline function ended: returned, or raised
    response,         \* what the route answered
    runs              \* the pipeline run of each stream: where it is, what it loaded and scored

evalVars == << evalCall, evalResult >>

pipeVars == << evaluation, pc, idx, agentSources, collected, agent_outputs,
               updated_vendors, dimension_importance >>

searchVars == << clock, cache, last_request_ts, request_lock, calls, searchEnv,
                 upstream, searchHistory >>

runVars == << endpoint, generator, workflow_task, event_queue, published, frames,
              invoked, pipeline_runs, outcome, response >>

vars == << evalCall, evalResult, evaluation, pc, idx, agentSources, collected,
           agent_outputs, updated_vendors, dimension_importance,
           clock, cache, last_request_ts, request_lock, calls, searchEnv,
           upstream, searchHistory,
           endpoint, generator, workflow_task, event_queue, published, frames,
           invoked, pipeline_runs, outcome, response, runs >>

NoCall == [agent |-> "none"]

\* ------------------------------------------------------------------------
\* One evaluator invoked on its own: execute() from the point where
\* research_requirement has filled self.sources
\* ------------------------------------------------------------------------

\* The invocations: each agent with every input it is given here
EvalCalls ==
    {[agent |-> "compliance", use_case |-> "", sources |-> sources, llm |-> llm] :
        sources \in SourceLists, llm \in ComplianceLlm}
    \cup
    UNION {{[agent |-> "interoperability", use_case |-> use_case,
             sources |-> sources, llm |-> base \o extra] :
              sources \in SourceLists, base \in InteropLlm,
              extra \in [1..Len(specific_integrations(use_case)) -> InteropSpecificLlm]} :
           use_case \in UseCases}
    \cup
    {[agent |-> "finance", use_case |-> use_case, sources |-> sources, llm |-> llm] :
        sources \in SourceLists, use_case \in UseCases, llm \in FinanceLlm}
    \cup
    {[agent |-> "adoption", use_case |-> "", sources |-> sources, llm |-> llm] :
        sources \in SourceLists, llm \in AdoptionLlm}

NoSearchCall ==
    [pc |-> "idle", key |-> << >>, result |-> << >>, wake_at |-> 0, waited |-> FALSE]

\* search_client as imported: empty cache, no request made yet, lock free.
\* The clock is far from the initial _last_request_ts of 0.
SearchFresh ==
    /\ clock = SEARCH_MIN_INTERVAL
    /\ cache = [key \in AllKeys |-> None]
    /\ last_request_ts = 0
    /\ request_lock = [holder |-> 0, waiters |-> << >>]
    /\ calls = [c \in Callers |-> NoSearchCall]
    /\ upstream = [key \in AllKeys |-> 0]
    /\ searchHistory = [cleared |-> FALSE, failed_at |-> [key \in AllKeys |-> None],
                        first_call |-> None, last_return |-> 0]

\* No search is made: the client is fresh, with the default configuration
SearchIdle ==
    /\ SearchFresh
    /\ searchEnv = [SEARCH_PROVIDER |-> "brave", BRAVE_KEY |-> "BSA-key"]

\* No route of workflows.py has been called
RunIdle ==
    /\ endpoint = "none"
    /\ generator = "none"
    /\ workflow_task = "none"
    /\ event_queue = << >>
    /\ published = << >>
    /\ frames = << >>
    /\ invoked = << >>
    /\ pipeline_runs = 0
    /\ outcome = None
    /\ response = None

\* The pipeline at rest, before any evaluation is loaded
PipelineIdle ==
    /\ evaluation = << >>
    /\ pc = "idle"
    /\ idx = 0
    /\ agentSources = [d \in DimSet |-> << >>]
    /\ collected = << >>
    /\ agent_outputs = << >>
    /\ updated_vendors = << >>
    /\ dimension_importance = default_importance

InitEval ==
    /\ runs = << >>
    /\ evalCall \in EvalCalls
    /\ evalResult = NoCall
    /\ PipelineIdle
    /\ SearchIdle
    /\ RunIdle

EvalCompliance ==
    /\ evalCall.agent = "compliance"
    /\ evalResult = NoCall
    /\ evalResult' \in Compliance_execute(evalCall.sources, evalCall.llm)
    /\ UNCHANGED << evalCall, runs, pipeVars, searchVars, runVars >>

EvalInteroperability ==
    /\ evalCall.agent = "interoperability"
    /\ evalResult = NoCall
    /\ evalResult' \in Interop_execute(evalCall.sources, evalCall.use_case, evalCall.llm)
    /\ UNCHANGED << evalCall, runs, pipeVars, searchVars, runVars >>

EvalFinance ==
    /\ evalCall.agent = "finance"
    /\ evalResult = NoCall
    /\ evalResult' \in Finance_execute(evalCall.sources, evalCall.use_case, evalCall.llm)
    /\ UNCHANGED << evalCall, runs, pipeVars, searchVars, runVars >>

EvalAdoption ==
    /\ evalCall.agent = "adoption"
    /\ evalResult = NoCall
    /\ evalResult' \in Adoption_execute(evalCall.sources, evalCall.llm)
    /\ UNCHANGED << evalCall, runs, pipeVars, searchVars, runVars >>

NextEval ==
    \/ EvalCompliance
    \/ EvalInteroperability
    \/ EvalFinance
    \/ EvalAdoption

SpecEval == InitEval /\ [][NextEval]_vars

\* ------------------------------------------------------------------------
\* The requirement alignment on its own: the part of ComplianceAgent.execute
\* between the recommendations and create_structured_output
\* ------------------------------------------------------------------------

InitMatch ==
    /\ runs = << >>
    /\ evalCall \in MatchCalls
    /\ evalResult = NoCall
    /\ PipelineIdle
    /\ SearchIdle
    /\ RunIdle

MatchRequirements ==
    /\ evalCall.agent = "requirements"
    /\ evalResult = NoCall
    /\ evalResult' = requirements_alignment(evalCall.all_reqs, evalCall.findings,
                                            evalCall.contents)
    /\ UNCHANGED << evalCall, runs, pipeVars, searchVars, runVars >>

NextMatch == MatchRequirements

SpecMatch == InitMatch /\ [][NextMatch]_vars

\* ------------------------------------------------------------------------
\* RequirementProfileAgent.execute on its own
\* ------------------------------------------------------------------------

InitProfile ==
    /\ runs = << >>
    /\ evalCall \in ProfileCalls
    /\ evalResult = NoCall
    /\ PipelineIdle
    /\ SearchIdle
    /\ RunIdle

BuildProfile ==
    /\ evalCall.agent = "requirement_profile"
    /\ evalResult = NoCall
    /\ evalResult' = [dimension_importance |->
                         RequirementProfile_execute(evalCall.use_case, evalCall.reply)]
    /\ UNCHANGED << evalCall, runs, pipeVars, searchVars, runVars >>

NextProfile == BuildProfile

SpecProfile == InitProfile /\ [][NextProfile]_vars

Profiled == evalCall.agent = "requirement_profile" /\ evalResult # NoCall

\* The keys the reply's dimension_importance object holds
GivenKeys ==
    IF evalCall.reply.dimension_importance.type = "dict"
    THEN DOMAIN evalCall.reply.dimension_importance.items
    ELSE {}

\* C18: for every use case and every reply of the language model, the
\* returned dimension_importance has the four keys security, cost,
\* interoperability and adoption, each an integer in [0,5], and 3 for every
\* key the reply omitted.
C18_FourIntegerWeights ==
    Profiled =>
        \A dim \in ProfileDims :
            /\ dim \in DOMAIN evalResult.dimension_importance
            /\ evalResult.dimension_importance[dim].type = "int"
            /\ evalResult.dimension_importance[dim].tenths \in {0, 10, 20, 30, 40, 50}
            /\ dim \notin GivenKeys => evalResult.dimension_importance[dim] = JsonInt(3)

\* ------------------------------------------------------------------------
\* search_with_followup on its own: one collect
\* ------------------------------------------------------------------------

InitCollect ==
    /\ runs = << >>
    /\ evalCall \in CollectCalls
    /\ evalResult = NoCall
    /\ PipelineIdle
    /\ SearchIdle
    /\ RunIdle

Collect ==
    /\ evalCall.agent = "search_with_followup"
    /\ evalResult = NoCall
    /\ evalResult' = search_with_followup(evalCall.env)
    /\ UNCHANGED << evalCall, runs, pipeVars, searchVars, runVars >>

NextCollect == Collect

SpecCollect == InitCollect /\ [][NextCollect]_vars

\* ------------------------------------------------------------------------
\* The weighted score of one vendor on its own
\* ------------------------------------------------------------------------

\* The importance a dimension can have after the clamp of the profile agent
ImportanceWeights == 0..5

\* The scores a dimension output can carry, in hundredths, and the absent one
DimensionScores == {None, Some(150), Some(445)}

ScoreCalls ==
    {[agent |-> "total_score",
      agent_outputs |-> [d \in DimSet |-> [score |-> scores[d]]],
      dimension_importance |-> weights] :
        scores \in [DimSet -> DimensionScores],
        weights \in [ProfileDims -> ImportanceWeights]}

InitScore ==
    /\ runs = << >>
    /\ evalCall \in ScoreCalls
    /\ evalResult = NoCall
    /\ PipelineIdle
    /\ SearchIdle
    /\ RunIdle

ScoreTotal ==
    /\ evalCall.agent = "total_score"
    /\ evalResult = NoCall
    /\ \E total \in weighted_total_score(evalCall.agent_outputs,
                                         evalCall.dimension_importance) :
          evalResult' = [agent |-> "total_score", total_score |-> total]
    /\ UNCHANGED << evalCall, runs, pipeVars, searchVars, runVars >>

NextScore == ScoreTotal

SpecScore == InitScore /\ [][NextScore]_vars

\* ------------------------------------------------------------------------
\* Properties of one collect
\* ------------------------------------------------------------------------

Collected == evalCall.agent = "search_with_followup" /\ evalResult # NoCall

\* The searches of the result that are site-restricted, and the broader ones
ScopedSearches ==
    SelectSeq(evalResult.searches, LAMBDA x : SubSeq(x.query, 1, 5) = "site:")

BroaderSearches ==
    SelectSeq(evalResult.searches, LAMBDA x : SubSeq(x.query, 1, 5) # "site:")

\* The sources the scoped tier gave: the first of the returned list
ScopedKept ==
    LET RECURSIVE Sum(_)
        Sum(list) == IF list = << >> THEN 0 ELSE Head(list).kept + Sum(Tail(list))
    IN  Sum(ScopedSearches)

\* A URL that is taken from a result list, is no noise and is fetched whole
Usable(url) ==
    /\ url # ""
    /\ ~is_noise_domain(url)
    /\ ~Unusable(evalCall.env.fetch_url[url])

Returned_urls == {evalResult.sources[i].url : i \in 1..Len(evalResult.sources)}

\* The URLs the searches issued offered within the results taken
Offered ==
    UNION {{evalCall.env.search_web.scoped[n][i] :
                i \in 1..Len(Prefix(evalCall.env.search_web.scoped[n], 2))} :
           n \in 1..Len(ScopedSearches)}
    \cup
    IF BroaderSearches = << >> THEN {}
    ELSE {evalCall.env.search_web.broader[i] :
              i \in 1..Len(Prefix(evalCall.env.search_web.broader, 3))}

\* C22: one collect issues at most 2 site-restricted searches and keeps at
\* most 2 results of each; it issues exactly one broader search iff the
\* scoped tier gave fewer than 2 official sources, keeping at most 3 of its
\* results; so at most 3 searches and at most 7 sources; a failed fetch or a
\* body under 100 characters skips that URL only: every other usable URL
\* offered is returned.
C22_TieredCollectIsBounded ==
    Collected =>
        /\ Len(ScopedSearches) <= 2
        /\ \A i \in 1..Len(ScopedSearches) : ScopedSearches[i].kept <= 2
        /\ Len(BroaderSearches) <= 1
        /\ Len(BroaderSearches) = 1
           <=> Len(OfficialSources(SubSeq(evalResult.sources, 1, ScopedKept))) < 2
        /\ \A i \in 1..Len(BroaderSearches) : BroaderSearches[i].kept <= 3
        /\ Len(evalResult.searches) <= 3
        /\ Len(evalResult.sources) <= 7
        /\ \A url \in Offered : Usable(url) => url \in Returned_urls
        /\ \A url \in Returned_urls : Usable(url) /\ url \in Offered

\* Three searches, a URL whose fetch failed and one whose body is short left
\* out, six sources returned
C22_Witness ==
    /\ Collected
    /\ Len(evalResult.searches) = 3
    /\ Len(evalResult.sources) = 6
    /\ \E url \in Offered \ {""} : Unusable(evalCall.env.fetch_url[url])

\* Three searches and seven sources
C22_WitnessSeven ==
    /\ Collected
    /\ Len(evalResult.searches) = 3
    /\ Len(evalResult.sources) = 7

\* Only the site-restricted searches, each adding 2 sources
C22_WitnessScopedOnly ==
    /\ Collected
    /\ Len(evalResult.searches) = 2
    /\ \A i \in 1..2 : evalResult.searches[i].kept = 2

\* C23: the list one collect returns never holds two sources with the same
\* URL, whichever search returned that URL.
C23_NoUrlTwice ==
    Collected =>
        \A i, j \in 1..Len(evalResult.sources) :
            evalResult.sources[i].url = evalResult.sources[j].url => i = j

\* ------------------------------------------------------------------------
\* Properties of the requirement alignment
\* ------------------------------------------------------------------------

Aligned == evalCall.agent = "requirements" /\ evalResult # NoCall

FindingsText == Lower(JoinSpace(evalCall.findings))

SocVariants == {"soc2 type ii", "soc2 type 2", "soc 2 (type " \o ROMAN_NUMERAL_TWO \o ")"}

\* C17: in the compliance requirement matcher, "SSO/SAML" is met whenever the
\* lowercased findings text contains "sso" or contains "saml", and
\* "SOC 2 Type II" is met whenever the text contains one of the SOC 2 variants
\* "soc2 type ii", "soc2 type 2", "soc 2 (type II)" with the Roman numeral.
C17_VariantsAreMet ==
    Aligned =>
        /\ /\ "SSO/SAML" \in DOMAIN evalResult.requirements_alignment
           /\ Contains(FindingsText, "sso") \/ Contains(FindingsText, "saml")
           => evalResult.requirements_alignment["SSO/SAML"] = "met"
        /\ /\ "SOC 2 Type II" \in DOMAIN evalResult.requirements_alignment
           /\ \E variant \in SocVariants : Contains(FindingsText, Lower(variant))
           => evalResult.requirements_alignment["SOC 2 Type II"] = "met"

\* SAML alone, without "sso" and without the literal requirement, and the
\* Roman-numeral SOC 2 variant, both met
C17_Witness ==
    /\ Aligned
    /\ evalCall.all_reqs = default_all_reqs
    /\ evalCall.contents = << >>
    /\ Contains(FindingsText, "saml") /\ ~Contains(FindingsText, "sso")
    /\ Contains(FindingsText, "soc 2 (type " \o SMALL_ROMAN_NUMERAL_TWO \o ")")
    /\ evalResult.requirements_alignment["SSO/SAML"] = "met"
    /\ evalResult.requirements_alignment["SOC 2 Type II"] = "met"
    /\ evalResult.requirements_alignment["RBAC"] = "unmet"

\* C21: for every requirement whose phrase is a key of the variations map,
\* a findings text that contains one of the variants listed for that phrase
\* ("single sign-on" for "SSO/SAML") makes the requirement met.
C21_ListedVariantsAreMet ==
    Aligned =>
        \A req \in DOMAIN evalResult.requirements_alignment :
            /\ Lower(req) \in DOMAIN variations_map
            /\ AnyIn(variations_map[Lower(req)], FindingsText)
            => evalResult.requirements_alignment[req] = "met"

\* ------------------------------------------------------------------------
\* Properties of the dimension outputs
\* ------------------------------------------------------------------------

\* The invocation returned a DimensionOutput (it was made, and did not raise)
Produced == "status" \in DOMAIN evalResult

\* The keyword sets each evaluator classifies its findings with
PositiveKw ==
    [compliance |-> CompliancePositiveKw, interoperability |-> InteropPositiveKw,
     finance |-> FinanceStrengthKw, adoption |-> AdoptionPositiveKw]

NegativeKw ==
    [compliance |-> ComplianceNegativeKw, interoperability |-> InteropNegativeKw,
     finance |-> FinanceRiskKw, adoption |-> AdoptionNegativeKw]

PositiveCount == Len(Matching(evalResult.findings, PositiveKw[evalCall.agent]))

NegativeCount == Len(Matching(evalResult.findings, NegativeKw[evalCall.agent]))

OfficialPresent == OfficialSources(evalCall.sources) # << >>

\* Fewer than half of the use case's integration requirements are mentioned
\* in the findings
RequirementsMostlyUnmet ==
    LET required == extract_integration_requirements(evalCall.use_case)
    IN  /\ required # << >>
        /\ 2 * requirements_met(evalResult.findings, required) < Len(required)

ScoreIn(o, low, high) ==
    o.score # None /\ low <= o.score[1] /\ o.score[1] <= high

\* C2: every DimensionOutput of the four evaluators has a score between 0
\* and 5 when its status is ok or risk, and no score when its status is
\* insufficient_data.
C2_ScoreMatchesStatus ==
    Produced =>
        /\ evalResult.status \in {"ok", "risk", "insufficient_data"}
        /\ evalResult.status \in {"ok", "risk"} => ScoreIn(evalResult, 0, 500)
        /\ evalResult.status = "insufficient_data" => evalResult.score = None

\* An evaluator returned ok with the score 5.0
C2_Witness ==
    Produced /\ evalResult.status = "ok" /\ evalResult.score = Some(500)

C4_OkNeedsPositive ==
    Produced =>
        /\ evalResult.status = "ok" =>
              PositiveCount >= 1 /\ ScoreIn(evalResult, 200, 500)
        /\ (OfficialPresent /\ PositiveCount = 0 /\ NegativeCount <= PositiveCount) =>
              evalResult.status = "insufficient_data" /\ evalResult.score = None

\* C4 amended: that rule holds for the compliance, interoperability and
\* adoption evaluators; the finance evaluator returns ok with a score in
\* [2.0, 5.0] whenever an official source is present, whatever the findings.
C4_OkRule ==
    Produced =>
        IF evalCall.agent = "finance"
        THEN /\ evalResult.status = "ok" <=> OfficialPresent
             /\ evalResult.status = "ok" => ScoreIn(evalResult, 200, 500)
        ELSE /\ evalResult.status = "ok" =>
                   PositiveCount >= 1 /\ ScoreIn(evalResult, 200, 500)
             /\ (OfficialPresent /\ PositiveCount = 0 /\ NegativeCount <= PositiveCount) =>
                   evalResult.status = "insufficient_data" /\ evalResult.score = None

\* The adoption evaluator had official sources and findings of neither kind
C4_Witness ==
    /\ Produced /\ evalCall.agent = "adoption"
    /\ OfficialPresent /\ PositiveCount = 0 /\ NegativeCount = 0
    /\ evalResult.status = "insufficient_data"

\* ------------------------------------------------------------------------
\* The pipelines: run_application_pipeline_async and
\* run_assessment_pipeline_async on one evaluation document
\* ------------------------------------------------------------------------

NewVendor(k) ==
    [id |-> VendorId(k), agent_outputs |-> << >>, total_score |-> None]

NewEvaluation(type, use_case, n) ==
    [type |-> type, use_case |-> use_case,
     vendors |-> [k \in 1..n |-> NewVendor(k)],
     status |-> "pending", error |-> None,
     recommendation |-> None, onboarding_checklist |-> << >>]

\* The evaluation documents the pipelines are started on: an assessment of
\* one or more vendors for a use case, or the application of one vendor
Evaluations ==
    {NewEvaluation("assessment", use_case, n) :
        use_case \in PipelineUseCases, n \in 1..MaxVendors}
    \cup {NewEvaluation("application", "", 1)}

Init ==
    /\ runs = << >>
    /\ evalCall = NoCall
    /\ evalResult = NoCall
    /\ evaluation \in Evaluations
    /\ pc = "start"
    /\ idx = 0
    /\ agentSources = [d \in DimSet |-> << >>]
    /\ collected = << >>
    /\ agent_outputs = << >>
    /\ updated_vendors = << >>
    /\ dimension_importance = default_importance
    /\ SearchIdle
    /\ RunIdle

\* What the pipelines keep of a dimension output
Compact(o) ==
    [status |-> o.status, score |-> o.score, confidence |-> o.confidence]

\* update_evaluation writes the vendors: the outputs' "sources" is the
\* agent's own list object, so what is stored is that list as it is now
Persisted(vendors, sources) ==
    [k \in 1..Len(vendors) |->
        [vendors[k] EXCEPT !.agent_outputs =
            [d \in DOMAIN @ |->
                [status |-> @[d].status, score |-> @[d].score,
                 confidence |-> @[d].confidence, sources |-> sources[d]]]]]

\* A handler that marks the run failed and keeps the message to itself
Failed_without_error(doc, e) ==
    [doc EXCEPT !.status = "failed"]

\* except Exception: the status becomes failed, the error is stored
Failed(doc, e) ==
    [doc EXCEPT !.status = "failed", !.error = Some(e)]

\* The pipeline is loaded and marked running; the application pipeline
\* fixes the weights and creates its agents (intake and verification run
\* here, they catch their own errors)
StartPipeline ==
    /\ pc = "start"
    /\ evaluation' = [evaluation EXCEPT !.status = "running"]
    /\ IF evaluation.type = "assessment"
       THEN /\ pc' = "profile"
            /\ UNCHANGED << idx, dimension_importance >>
       ELSE /\ pc' = "compliance"
            /\ idx' = 1
            /\ dimension_importance' =
                 [security |-> 5, cost |-> 4, interoperability |-> 5, adoption |-> 4]
    /\ UNCHANGED << evalVars, runs, searchVars, runVars, agentSources, collected, agent_outputs, updated_vendors >>

\* Step 1 of the assessment: the requirement profile, then the four agents
\* are created once for the whole run
RequirementProfile ==
    /\ pc = "profile"
    /\ \E reply \in ProfileReplies :
          dimension_importance' =
              Weights(RequirementProfile_execute(evaluation.use_case, reply))
    /\ agentSources' = [d \in DimSet |-> << >>]
    /\ idx' = 1
    /\ pc' = "compliance"
    /\ UNCHANGED << evalVars, runs, searchVars, runVars, evaluation, collected, agent_outputs, updated_vendors >>

\* One awaited agent call for the current vendor: research_requirement
\* appends what it collected to the agent's sources, execute returns the
\* output or raises
RunAgent(d, own, o, next) ==
    /\ agentSources' = [agentSources EXCEPT ![d] = @ \o own]
    /\ collected' = collected @@ (<< idx, d >> :> own)
    /\ IF IsRaised(o)
       THEN /\ evaluation' = Failed(evaluation, o.raised)
            /\ pc' = "done"
            /\ UNCHANGED agent_outputs
       ELSE /\ agent_outputs' = agent_outputs @@ (d :> Compact(o))
            /\ pc' = next
            /\ UNCHANGED evaluation
    /\ UNCHANGED << evalVars, runs, searchVars, runVars, idx, updated_vendors, dimension_importance >>

RunCompliance ==
    /\ pc = "compliance"
    /\ \E own \in OwnCollections, llm \in PipelineLlm["compliance"] :
          \E o \in Compliance_execute(agentSources["compliance"] \o own, llm) :
              RunAgent("compliance", own, o, "interoperability")

RunInteroperability ==
    /\ pc = "interoperability"
    /\ \E own \in OwnCollections, llm \in PipelineLlm["interoperability"] :
          \E o \in Interop_execute(agentSources["interoperability"] \o own,
                                   evaluation.use_case, llm) :
              RunAgent("interoperability", own, o, "finance")

RunFinance ==
    /\ pc = "finance"
    /\ \E own \in OwnCollections, llm \in PipelineLlm["finance"] :
          \E o \in Finance_execute(agentSources["finance"] \o own,
                                   evaluation.use_case, llm) :
              RunAgent("finance", own, o, "adoption")

RunAdoption ==
    /\ pc = "adoption"
    /\ \E own \in OwnCollections, llm \in PipelineLlm["adoption"] :
          \E o \in Adoption_execute(agentSources["adoption"] \o own, llm) :
              RunAgent("adoption", own, o, "score")

\* Assessment: the vendor's weighted score, then the next vendor
ScoreVendor ==
    /\ pc = "score"
    /\ evaluation.type = "assessment"
    /\ \E total \in weighted_total_score(agent_outputs, dimension_importance) :
          updated_vendors' = Append(updated_vendors,
              [id |-> evaluation.vendors[idx].id, agent_outputs |-> agent_outputs,
               total_score |-> total])
    /\ agent_outputs' = << >>
    /\ IF idx < Len(evaluation.vendors)
       THEN idx' = idx + 1 /\ pc' = "compliance"
       ELSE idx' = idx /\ pc' = "finish"
    /\ UNCHANGED << evalVars, runs, searchVars, runVars, evaluation, agentSources, collected, dimension_importance >>

\* Application: the mean of the four scores
ScoreApplication ==
    /\ pc = "score"
    /\ evaluation.type = "application"
    /\ \E total \in application_total_score(agent_outputs) :
          IF IsRaised(total)
          THEN /\ evaluation' = Failed(evaluation, total.raised)
               /\ pc' = "done"
               /\ UNCHANGED updated_vendors
          ELSE /\ updated_vendors' =
                    << [id |-> evaluation.vendors[1].id, agent_outputs |-> agent_outputs,
                        total_score |-> total.returned] >>
               /\ pc' = "finish"
               /\ UNCHANGED evaluation
    /\ UNCHANGED << evalVars, runs, searchVars, runVars, idx, agentSources, collected, agent_outputs,
                    dimension_importance >>

\* Assessment: the vendors are stored, the comparison gives the
\* recommendation, the checklist is generated, the document is completed
FinishAssessment ==
    /\ pc = "finish"
    /\ evaluation.type = "assessment"
    /\ \E reply \in ComparisonReplies(updated_vendors) :
          LET stored == [evaluation EXCEPT
                            !.vendors = Persisted(updated_vendors, agentSources)]
              recommendation == recommendation_of(Comparison_execute(updated_vendors, reply))
              checklist == generate_contextual_checklist(updated_vendors,
                                                         recommendation.vendor_id)
          IN  evaluation' =
                 IF IsRaised(checklist) THEN Failed(stored, checklist.raised)
                 ELSE [stored EXCEPT !.status = "completed",
                                     !.recommendation = Some(recommendation),
                                     !.onboarding_checklist = checklist.returned]
    /\ pc' = "done"
    /\ UNCHANGED << evalVars, runs, searchVars, runVars, idx, agentSources, collected, agent_outputs,
                    updated_vendors, dimension_importance >>

\* Application: the summary, then the document is completed
FinishApplication ==
    /\ pc = "finish"
    /\ evaluation.type = "application"
    /\ \E reply \in SummaryReplies :
          LET summary == Summary_execute(agent_outputs, reply)
          IN  evaluation' =
                 IF IsRaised(summary) THEN Failed(evaluation, summary.raised)
                 ELSE [evaluation EXCEPT
                          !.status = "completed",
                          !.vendors = Persisted(updated_vendors, agentSources),
                          !.recommendation =
                              Some([vendor_id |-> evaluation.vendors[1].id,
                                    reason |-> summary.recommendation]),
                          !.onboarding_checklist = summary.onboarding_checklist]
    /\ pc' = "done"
    /\ UNCHANGED << evalVars, runs, searchVars, runVars, idx, agentSources, collected, agent_outputs,
                    updated_vendors, dimension_importance >>

Next ==
    \/ StartPipeline
    \/ RequirementProfile
    \/ RunCompliance
    \/ RunInteroperability
    \/ RunFinance
    \/ RunAdoption
    \/ ScoreVendor
    \/ ScoreApplication
    \/ FinishAssessment
    \/ FinishApplication

Spec == Init /\ [][Next]_vars

\* ------------------------------------------------------------------------
\* Properties of the assessment run
\* ------------------------------------------------------------------------

\* Whether the pipeline holds an output for dimension d of the k-th vendor
HasOutput(k, d) ==
    IF k <= Len(updated_vendors) THEN d \in DOMAIN updated_vendors[k].agent_outputs
    ELSE k = idx /\ d \in DOMAIN agent_outputs

\* That output: of a scored vendor, or of the vendor being evaluated
OutputOf(k, d) ==
    IF k <= Len(updated_vendors) THEN updated_vendors[k].agent_outputs[d]
    ELSE agent_outputs[d]

\* C1: in an assessment run, every (vendor, dimension) invocation whose own
\* evidence collection returned no source of credibility official (none at
\* all included) produces status insufficient_data with the score absent,
\* whatever was collected for earlier vendors of the run.
C1_OwnEvidenceDecides ==
    evaluation.type = "assessment" =>
        \A key \in DOMAIN collected :
            (HasOutput(key[1], key[2]) /\ OfficialSources(collected[key]) = << >>)
            => /\ OutputOf(key[1], key[2]).status = "insufficient_data"
               /\ OutputOf(key[1], key[2]).score = None

\* The vendors of the document whose results have been stored
PersistedVendors ==
    {k \in 1..Len(evaluation.vendors) : evaluation.vendors[k].agent_outputs # << >>}

\* The weight each dimension is given
WeightKey ==
    [compliance |-> "security", finance |-> "cost",
     interoperability |-> "interoperability", adoption |-> "adoption"]

SumDims(f(_)) == f(Dims[1]) + f(Dims[2]) + f(Dims[3]) + f(Dims[4])

Abs(x) == IF x < 0 THEN -x ELSE x

\* The stored total of vendor v against the mean of the dimensions whose
\* status is not insufficient_data: the weighted mean, the plain mean when
\* their weights sum to 0, absent when there is none.  Within(a, b) compares
\* the total (times the divisor b) with the sum a.
TotalIsMean(v, Within(_, _, _)) ==
    LET inc(d) == v.agent_outputs[d].status # "insufficient_data"
        val(d) == IF v.agent_outputs[d].score # None THEN v.agent_outputs[d].score[1] ELSE 0
        weight(d) == IF inc(d) THEN dimension_importance[WeightKey[d]] ELSE 0
        weighted(d) == IF inc(d) THEN val(d) * dimension_importance[WeightKey[d]] ELSE 0
        plain(d) == IF inc(d) THEN val(d) ELSE 0
        one(d) == IF inc(d) THEN 1 ELSE 0
    IN  IF SumDims(one) = 0 THEN v.total_score = None
        ELSE /\ v.total_score # None
             /\ IF SumDims(weight) > 0
                THEN Within(v.total_score[1], SumDims(weighted), SumDims(weight))
                ELSE Within(v.total_score[1], SumDims(plain), SumDims(one))

\* C5 as stated: the persisted total_score of every assessed vendor equals
\* the weighted mean of exactly the dimension scores whose status is not
\* insufficient_data, the unweighted mean when the included weights sum to 0,
\* and is absent when no dimension is included.
C5_TotalIsExactMean ==
    evaluation.type = "assessment" =>
        \A k \in PersistedVendors :
            TotalIsMean(evaluation.vendors[k], LAMBDA t, sum, div : t * div = sum)

\* C5 amended: the persisted total_score is that mean rounded to two
\* decimals (it differs from the mean by at most half a hundredth).
C5_TotalIsRoundedMean ==
    evaluation.type = "assessment" =>
        \A k \in PersistedVendors :
            TotalIsMean(evaluation.vendors[k],
                        LAMBDA t, sum, div : 2 * Abs(t * div - sum) <= div)

\* A stored vendor with an excluded dimension, whose included dimensions all
\* have weight 0
C5_Witness ==
    /\ evaluation.type = "assessment"
    /\ \E k \in PersistedVendors :
          LET v == evaluation.vendors[k]
              included == {d \in DimSet : v.agent_outputs[d].status # "insufficient_data"}
          IN  /\ included # {} /\ included # DimSet
              /\ \A d \in included : dimension_importance[WeightKey[d]] = 0
              /\ v.total_score # None

\* C6: when every vendor's compliance output is insufficient_data, the
\* recommendation of the assessment names no vendor (recommended vendor id
\* empty) and gives a non-empty reason.
C6_AllInsufficientNamesNoVendor ==
    (/\ evaluation.type = "assessment"
     /\ evaluation.recommendation # None
     /\ \A k \in 1..Len(evaluation.vendors) :
            /\ k \in PersistedVendors
            /\ evaluation.vendors[k].agent_outputs["compliance"].status = "insufficient_data")
    => /\ evaluation.recommendation[1].vendor_id = ""
       /\ evaluation.recommendation[1].reason # ""

\* C7: in both pipelines, a run whose evaluators all returned an output, one
\* of them insufficient_data, ends completed, and each stored vendor has a
\* total_score exactly when one of its dimensions has a score.
C7_InsufficientDataCompletes ==
    (/\ pc = "done"
     /\ \A key \in DOMAIN collected : HasOutput(key[1], key[2])
     /\ \E key \in DOMAIN collected :
            OutputOf(key[1], key[2]).status = "insufficient_data")
    => /\ evaluation.status = "completed"
       /\ \A k \in PersistedVendors :
             evaluation.vendors[k].total_score # None
             <=> \E d \in DimSet : evaluation.vendors[k].agent_outputs[d].score # None

\* The total of a stored vendor as a number, an absent total below all
TotalOrLess(v) == IF v.total_score = None THEN -1 ELSE v.total_score[1]

\* The official sources stored with a vendor's outputs
OfficialCount(v) ==
    SumDims(LAMBDA d : IF d \in DOMAIN v.agent_outputs
                       THEN Len(OfficialSources(v.agent_outputs[d].sources)) ELSE 0)

\* Vendor j is ahead of vendor k: higher total, then more official sources,
\* then earlier in the list
Ahead(j, k) ==
    LET vj == evaluation.vendors[j]
        vk == evaluation.vendors[k]
    IN  \/ TotalOrLess(vj) > TotalOrLess(vk)
        \/ TotalOrLess(vj) = TotalOrLess(vk) /\ OfficialCount(vj) > OfficialCount(vk)
        \/ TotalOrLess(vj) = TotalOrLess(vk) /\ OfficialCount(vj) = OfficialCount(vk) /\ j < k

\* C16: in a completed assessment where the compliance dimension of at
\* least one vendor is not insufficient_data, the recommended vendor is the
\* one with the highest total score, ties broken by the official-source
\* count and then by the position in the vendor list.
C16_HighestCompositeRecommended ==
    /\ evaluation.type = "assessment"
    /\ evaluation.status = "completed"
    /\ \E k \in PersistedVendors :
          evaluation.vendors[k].agent_outputs["compliance"].status # "insufficient_data"
    => \E k \in PersistedVendors :
          /\ evaluation.recommendation = Some([vendor_id |-> evaluation.vendors[k].id,
                                               reason |-> "Best fit for the use case"])
          /\ \A j \in PersistedVendors \ {k} : Ahead(k, j)

\* C19: the sources list of every dimension output holds exactly the sources
\* collected by the evaluator invocation that produced it, and no later
\* invocation of the run changes it: what is stored for (vendor, dimension)
\* is what that invocation collected.
C19_SourcesAreOwnCollection ==
    \A k \in PersistedVendors :
        \A d \in DOMAIN evaluation.vendors[k].agent_outputs :
            evaluation.vendors[k].agent_outputs[d].sources = collected[<< k, d >>]

\* The confidence the rule gives a sources list: low when it is empty, high
\* iff at least 2 sources are official and there are at least 3, medium iff
\* not high and at least 1 is official or there are at least 2, low otherwise
FollowsConfidenceRule(sources, confidence) ==
    LET official == Cardinality({i \in 1..Len(sources) :
                                    sources[i].credibility = "official"})
        high == official >= 2 /\ Len(sources) >= 3
        medium == ~high /\ (official >= 1 \/ Len(sources) >= 2)
    IN  /\ confidence \in {"low", "medium", "high"}
        /\ sources = << >> => confidence = "low"
        /\ confidence = "high" <=> high
        /\ confidence = "medium" <=> medium

\* C20: for every dimension output, confidence is a function of its sources
\* list only: low whenever the list is empty, high iff at least 2 sources
\* are official and there are at least 3 sources, medium iff it is not high
\* and there is at least 1 official source or at least 2 sources, low
\* otherwise.
C20_ConfidenceFollowsSources ==
    \A k \in PersistedVendors :
        \A d \in DOMAIN evaluation.vendors[k].agent_outputs :
            FollowsConfidenceRule(evaluation.vendors[k].agent_outputs[d].sources,
                                  evaluation.vendors[k].agent_outputs[d].confidence)

\* ------------------------------------------------------------------------
\* search_client.search_web called by concurrent tasks
\* ------------------------------------------------------------------------

InitSearch ==
    /\ runs = << >>
    /\ evalCall = NoCall
    /\ evalResult = NoCall
    /\ PipelineIdle
    /\ SearchFresh
    /\ searchEnv \in SearchEnvs
    /\ RunIdle

\* asyncio.Lock.release with `waiting` queued: the first waiter is next
Released(waiting) ==
    IF waiting = << >> THEN [holder |-> 0, waiters |-> << >>]
    ELSE [holder |-> Head(waiting), waiters |-> Tail(waiting)]

\* The call of a caller at each point of search_web
CallAt(point, key, results, wake_at, waited) ==
    [pc |-> point, key |-> key, result |-> results, wake_at |-> wake_at,
     waited |-> waited]

MarkCall(history) ==
    [history EXCEPT !.first_call = IF @ = None THEN Some(clock) ELSE @]

MarkReturn(history) ==
    [history EXCEPT !.last_return = clock]

\* The search for key failed, after `count` upstream requests for the key
MarkFailure(history, key, count) ==
    [history EXCEPT !.failed_at[key] = Some(count)]

\* search_web from "async with _request_lock" on, the lock acquired by c
\* with `waiting` queued behind it, up to the first await that suspends:
\* the second look into the cache; the provider; _brave_search up to its
\* return for a missing key, or through _throttle_if_needed to the sleep, or
\* to the request
UnderLock(c, key, waiting, waited, history) ==
    IF InCacheUnderLock(cache, key)
    THEN /\ calls' = [calls EXCEPT ![c] = CallAt("done", key, cache[key][1], 0, waited)]
         /\ request_lock' = Released(waiting)
         /\ searchHistory' = MarkReturn(history)
         /\ UNCHANGED << cache, last_request_ts, upstream >>
    ELSE IF get_search_provider(searchEnv) # "brave" \/ get_brave_api_key(searchEnv) = ""
    THEN /\ cache' = cache_store(cache, key, << >>)
         /\ calls' = [calls EXCEPT ![c] = CallAt("done", key, << >>, 0, waited)]
         /\ request_lock' = Released(waiting)
         /\ searchHistory' =
               MarkReturn(IF get_search_provider(searchEnv) = "brave"
                          THEN MarkFailure(history, key, upstream[key])
                          ELSE history)
         /\ UNCHANGED << last_request_ts, upstream >>
    ELSE IF sleep_time(clock, last_request_ts) > 0
    THEN /\ calls' = [calls EXCEPT ![c] =
                         CallAt("sleeping", key, << >>,
                                clock + sleep_time(clock, last_request_ts), waited)]
         /\ request_lock' = [holder |-> c, waiters |-> waiting]
         /\ searchHistory' = history
         /\ UNCHANGED << cache, last_request_ts, upstream >>
    ELSE /\ last_request_ts' = clock
         /\ upstream' = [upstream EXCEPT ![key] = @ + 1]
         /\ calls' = [calls EXCEPT ![c] = CallAt("request", key, << >>, 0, waited)]
         /\ request_lock' = [holder |-> c, waiters |-> waiting]
         /\ searchHistory' = history
         /\ UNCHANGED cache

\* A task calls search_web(query, 5, site_hint): a cache hit returns at
\* once; on a miss the task takes the lock if it is free, and queues if not.
\* The callers are numbered in the order of their calls.
SearchWeb(c) ==
    /\ calls[c].pc = "idle"
    /\ \A earlier \in 1..(c - 1) : calls[earlier].pc # "idle"
    /\ \E query \in Queries, site_hint \in SiteHints :
          LET key == cache_key(query, 5, site_hint)
              history == MarkCall(searchHistory)
          IN  IF InCache(cache, key)
              THEN /\ calls' = [calls EXCEPT ![c] =
                                   CallAt("done", key, cache[key][1], 0, FALSE)]
                   /\ searchHistory' = MarkReturn(history)
                   /\ UNCHANGED << cache, last_request_ts, request_lock, upstream >>
              ELSE IF request_lock.holder # 0
              THEN /\ calls' = [calls EXCEPT ![c] = CallAt("waiting", key, << >>, 0, TRUE)]
                   /\ request_lock' = [request_lock EXCEPT !.waiters = Append(@, c)]
                   /\ searchHistory' = history
                   /\ UNCHANGED << cache, last_request_ts, upstream >>
              ELSE UnderLock(c, key, << >>, FALSE, history)
    /\ UNCHANGED << evalVars, runs, pipeVars, runVars, clock, searchEnv >>

\* A queued task is given the lock and goes on
Resume(c) ==
    /\ calls[c].pc = "waiting"
    /\ request_lock.holder = c
    /\ UnderLock(c, calls[c].key, request_lock.waiters, TRUE, searchHistory)
    /\ UNCHANGED << evalVars, runs, pipeVars, runVars, clock, searchEnv >>

\* _throttle_if_needed after asyncio.sleep: the timestamp is taken, the
\* request is sent
Wake(c) ==
    /\ calls[c].pc = "sleeping"
    /\ clock >= calls[c].wake_at
    /\ last_request_ts' = clock
    /\ upstream' = [upstream EXCEPT ![calls[c].key] = @ + 1]
    /\ calls' = [calls EXCEPT ![c].pc = "request"]
    /\ UNCHANGED << evalVars, runs, pipeVars, runVars, clock, cache, request_lock, searchEnv,
                    searchHistory >>

\* The request ends: _brave_search returns, search_web stores the results,
\* releases the lock and returns them
Respond(c) ==
    /\ calls[c].pc = "request"
    /\ \E reply \in Replies :
          LET results == brave_search_results(reply)
              key == calls[c].key
          IN  /\ cache' = cache_store(cache, key, results)
              /\ calls' = [calls EXCEPT ![c] =
                              CallAt("done", key, results, 0, calls[c].waited)]
              /\ searchHistory' =
                    MarkReturn(IF reply.kind # "200"
                               THEN MarkFailure(searchHistory, key, upstream[key])
                               ELSE searchHistory)
    /\ request_lock' = Released(request_lock.waiters)
    /\ UNCHANGED << evalVars, runs, pipeVars, runVars, clock, last_request_ts, searchEnv, upstream >>

\* clear_cache()
ClearCache ==
    /\ cache' = [key \in AllKeys |-> None]
    /\ searchHistory' = [searchHistory EXCEPT !.cleared = TRUE]
    /\ UNCHANGED << evalVars, runs, pipeVars, runVars, clock, last_request_ts, request_lock, calls,
                    searchEnv, upstream >>

\* Time passes
Tick ==
    /\ clock < MaxClock
    /\ clock' = clock + 1
    /\ UNCHANGED << evalVars, runs, pipeVars, runVars, cache, last_request_ts, request_lock, calls,
                    searchEnv, upstream, searchHistory >>

NextSearch ==
    \/ \E c \in Callers : SearchWeb(c)
    \/ \E c \in Callers : Resume(c)
    \/ \E c \in Callers : Wake(c)
    \/ \E c \in Callers : Respond(c)
    \/ ClearCache
    \/ Tick

SpecSearch == InitSearch /\ [][NextSearch]_vars

\* ------------------------------------------------------------------------
\* Properties of the search client
\* ------------------------------------------------------------------------

\* A miss is in flight: its upstream request is sent, its results are not
\* stored yet
InFlight(c) == calls[c].pc = "request"

\* C25: every mutation of the cache map and of the last-request timestamp,
\* clear_cache's included, is made by a task that holds the request lock
\* (taken before or within the step), and while a miss is in flight between
\* its upstream call and its cache store the cache changes only by that store.
C25_MutationsUnderLock ==
    [][/\ (cache' # cache \/ last_request_ts' # last_request_ts)
          => \E c \in Callers : /\ calls'[c] # calls[c]
                                /\ request_lock.holder \in {0, c}
       /\ \A c \in Callers :
             InFlight(c) /\ cache' # cache => calls'[c].pc = "done"]_vars

\* The provider is brave and the API key is set: a miss goes upstream
Configured ==
    get_search_provider(searchEnv) = "brave" /\ get_brave_api_key(searchEnv) # ""

Called == {c \in Callers : calls[c].pc # "idle"}

Finished == {c \in Callers : calls[c].pc = "done"}

PairwiseDistinctKeys(callers) ==
    \A a, b \in callers : a # b => calls[a].key # calls[b].key

C9_DistinctCallsTakeIntervals ==
    (Called # {} /\ Finished = Called /\ PairwiseDistinctKeys(Called))
    => searchHistory.last_return - searchHistory.first_call[1]
          >= (Cardinality(Called) - 1) * SEARCH_MIN_INTERVAL

\* C9 amended: that holds when the provider is brave and the API key is
\* set, so that each of the calls issues an upstream request.
C9_UpstreamCallsTakeIntervals ==
    (Configured /\ Called # {} /\ Finished = Called /\ PairwiseDistinctKeys(Called))
    => searchHistory.last_return - searchHistory.first_call[1]
          >= (Cardinality(Called) - 1) * SEARCH_MIN_INTERVAL

\* Every caller has searched for a key of its own, and the last return came
\* exactly (N - 1) intervals after the first call
C9_Witness ==
    /\ Configured /\ Finished = Callers /\ PairwiseDistinctKeys(Callers)
    /\ searchHistory.last_return - searchHistory.first_call[1]
          = (MaxCallers - 1) * SEARCH_MIN_INTERVAL

\* C10 as stated: once the search for key K has failed (an HTTP error, a
\* timeout, a transport error, a missing API key), no further upstream
\* request is issued for K and the cache never holds anything but [] for K,
\* so every later call returns [].
C10_FailureCachedForever ==
    \A key \in AllKeys :
        searchHistory.failed_at[key] # None =>
            /\ upstream[key] = searchHistory.failed_at[key][1]
            /\ cache[key] # None => cache[key] = Some(<< >>)

\* C10 amended: as long as clear_cache has not been called, a failed search
\* for K has returned [], K is cached as [], and every call with K returns
\* [] without a further upstream request.
C10_FailureCachedUntilCleared ==
    ~searchHistory.cleared =>
        \A key \in AllKeys :
            searchHistory.failed_at[key] # None =>
                /\ cache[key] = Some(<< >>)
                /\ upstream[key] = searchHistory.failed_at[key][1]
                /\ \A c \in Finished : calls[c].key = key => calls[c].result = << >>

\* The upstream request for a key failed, and a later call with the key
\* returned [] from the cache
C10_Witness ==
    /\ ~searchHistory.cleared
    /\ Finished = {1, 2}
    /\ calls[1].key = calls[2].key
    /\ searchHistory.failed_at[calls[1].key] = Some(1)
    /\ upstream[calls[1].key] = 1
    /\ ~calls[2].waited
    /\ calls[2].result = << >>

\* ------------------------------------------------------------------------
\* api/routes/workflows.py: the two synchronous routes and the event stream
\* ------------------------------------------------------------------------

MaxKeepalives == 1

Endpoints == {"application_run", "assessment_run", "stream"}

\* get_evaluation returns None
NoEvaluation == [type |-> "none"]

\* The documents a route is called on: none, an application with or
\* without its vendor, an assessment of up to MaxVendors vendors
RunEvaluations ==
    {NoEvaluation}
    \cup {NewEvaluation("application", "", n) : n \in 0..1}
    \cup {NewEvaluation("assessment", "", n) : n \in 0..MaxVendors}

\* An event as event_callback builds it
Ev(name) == [event |-> name, data |-> ""]

\* The workflow_error event carrying str(e)
ErrEv(e) == [event |-> "workflow_error", data |-> e]

\* The timestamps of the events put after `from` earlier ones
Stamp(items, from) ==
    [k \in 1..Len(items) |->
        [event |-> items[k].event, data |-> items[k].data, n |-> from + k]]

\* A queue that hands out the newest event first
put_nowait_front(queue, item) == << item >> \o queue

\* asyncio.Queue.put_nowait on the unbounded queue
put_nowait(queue, item) == Append(queue, item)

RECURSIVE PutAll(_, _)
\* The events of one stretch of code, put one after the other
PutAll(queue, items) ==
    IF items = << >> THEN queue
    ELSE PutAll(put_nowait(queue, Head(items)), Tail(items))

\* A generator that stops after workflow_complete only
Terminal_complete_only(event) == event.event = "workflow_complete"

\* event_generator stops after the events of these two types
Terminal(event) == event.event \in {"workflow_complete", "workflow_error"}

\* A handler that catches everything, cancellation included
CaughtByExceptException_all(e) == TRUE

\* "except Exception" catches e: CancelledError derives from BaseException
CaughtByExceptException(e) == e # "CancelledError"

\* Task.cancel(): a task that has not ended gets CancelledError thrown in
\* where it is suspended; a task that has ended is left alone
Cancel(task) == IF task \in {"created", "suspended"} THEN "cancelling" ELSE task

\* The dimension whose agent comes next for the current vendor
NextDim == Dims[Cardinality(DOMAIN agent_outputs) + 1]

\* What execute() of a dimension agent ends with in a run: an output with a
\* score, the compliance output without one, the division by zero of the
\* finance agent
RunResults(d) ==
    {[status |-> "ok", score |-> Some(350), confidence |-> "medium"]}
    \cup (IF d = "compliance"
          THEN {[status |-> "insufficient_data", score |-> None, confidence |-> "low"]}
          ELSE {})
    \cup (IF d = "finance" THEN {Raised("ZeroDivisionError")} ELSE {})

KeepaliveFrame == [event |-> "keepalive", data |-> "", n |-> 0]

Keepalives == Len(SelectSeq(frames, LAMBDA f : f = KeepaliveFrame))

InitRun ==
    /\ runs = << >>
    /\ evalCall = NoCall
    /\ evalResult = NoCall
    /\ SearchIdle
    /\ endpoint \in Endpoints
    /\ evaluation \in RunEvaluations
    /\ pc = "start"
    /\ idx = 0
    /\ agentSources = [d \in DimSet |-> << >>]
    /\ collected = << >>
    /\ agent_outputs = << >>
    /\ updated_vendors = << >>
    /\ dimension_importance = default_importance
    /\ generator = IF endpoint = "stream" THEN "start" ELSE "none"
    /\ workflow_task = "none"
    /\ event_queue = << >>
    /\ published = << >>
    /\ frames = << >>
    /\ invoked = << >>
    /\ pipeline_runs = 0
    /\ outcome = None
    /\ response = None

\* event_callback / event_queue.put of the events of one stretch of code
Emit(items) ==
    /\ event_queue' = PutAll(event_queue, Stamp(items, Len(published)))
    /\ published' = published \o Stamp(items, Len(published))

\* An exception e inside the try block of the async pipeline, after the
\* events `before` of the same stretch: the handler stores failed, reports
\* workflow_error and re-raises; run_workflow catches and puts workflow_error
FailRun(doc, e, before) ==
    /\ evaluation' = Failed(doc, e)
    /\ Emit(before \o << ErrEv(e), ErrEv(e) >>)
    /\ outcome' = Some(Raised(e))
    /\ workflow_task' = "done"
    /\ pc' = "done"

\* event_generator up to its loop: the evaluation is looked up, "connected"
\* is put, the workflow task is created
Connect ==
    /\ endpoint = "stream"
    /\ generator = "start"
    /\ IF evaluation = NoEvaluation
       THEN /\ frames' = Append(frames, [event |-> "workflow_error",
                                         data |-> "Evaluation not found", n |-> 0])
            /\ generator' = "closed"
            /\ UNCHANGED << event_queue, published, workflow_task >>
       ELSE /\ Emit(<< Ev("connected") >>)
            /\ workflow_task' = "created"
            /\ generator' = "streaming"
            /\ UNCHANGED frames
    /\ UNCHANGED << evalVars, runs, pipeVars, searchVars, endpoint, invoked, pipeline_runs,
                    outcome, response >>

\* run_workflow starts: the pipeline of the evaluation's type runs up to
\* its first agent call
StartRun ==
    /\ workflow_task = "created"
    /\ pc = "start"
    /\ pipeline_runs' = pipeline_runs + 1
    /\ LET running == [evaluation EXCEPT !.status = "running"]
       IN  IF evaluation.type = "application"
           THEN IF evaluation.vendors = << >>
                THEN /\ FailRun(running, "No vendor found in evaluation",
                                << Ev("workflow_start") >>)
                     /\ UNCHANGED << idx, dimension_importance >>
                ELSE /\ evaluation' = running
                     /\ Emit(<< Ev("workflow_start"), Ev("agent_start"), Ev("agent_start"),
                                Ev("agent_complete") >>)
                     /\ dimension_importance' =
                          [security |-> 5, cost |-> 4, interoperability |-> 5, adoption |-> 4]
                     /\ idx' = 1
                     /\ pc' = "invoke"
                     /\ workflow_task' = "running"
                     /\ UNCHANGED outcome
           ELSE /\ evaluation' = running
                /\ Emit(<< Ev("workflow_start"), Ev("agent_start") >>)
                /\ dimension_importance' =
                      Weights(RequirementProfile_execute(evaluation.use_case,
                                                         ProfileDown))
                /\ IF evaluation.vendors = << >>
                   THEN idx' = 0 /\ pc' = "finish"
                   ELSE idx' = 1 /\ pc' = "invoke"
                /\ workflow_task' = "running"
                /\ UNCHANGED outcome
    /\ UNCHANGED << evalVars, runs, searchVars, agentSources, collected, agent_outputs,
                    updated_vendors, endpoint, generator, frames, invoked, response >>

\* await agents[d].execute(ctx) up to the search inside research_requirement:
\* the task is suspended there, unless every search is answered from the cache
Invoke ==
    /\ workflow_task = "running"
    /\ pc = "invoke"
    /\ invoked' = Append(invoked, << idx, NextDim >>)
    /\ Emit((IF evaluation.type = "assessment" /\ NextDim = "compliance"
             THEN << Ev("vendor_start") >> ELSE << >>)
            \o << Ev("agent_start"), Ev("agent_thinking"), Ev("agent_progress") >>)
    /\ pc' = "await"
    /\ \E suspends \in BOOLEAN :
          workflow_task' = IF suspends THEN "suspended" ELSE "running"
    /\ UNCHANGED << evalVars, runs, searchVars, evaluation, idx, agentSources, collected,
                    agent_outputs, updated_vendors, dimension_importance, endpoint,
                    generator, frames, pipeline_runs, outcome, response >>

\* The search is over: the agent analyses, and returns its output or raises
Return ==
    /\ workflow_task \in {"suspended", "running"}
    /\ pc = "await"
    /\ \E result \in RunResults(NextDim) :
          IF IsRaised(result)
          THEN /\ FailRun(evaluation, result.raised, << Ev("agent_progress") >>)
               /\ UNCHANGED agent_outputs
          ELSE /\ Emit(<< Ev("agent_progress"), Ev("agent_complete") >>)
               /\ agent_outputs' = agent_outputs @@ (NextDim :> result)
               /\ pc' = IF NextDim = "adoption" THEN "score" ELSE "invoke"
               /\ workflow_task' = "running"
               /\ UNCHANGED << evaluation, outcome >>
    /\ UNCHANGED << evalVars, runs, searchVars, idx, agentSources, collected, updated_vendors,
                    dimension_importance, endpoint, generator, frames, invoked,
                    pipeline_runs, response >>

\* The four outputs of a vendor are in: its total score
Score ==
    /\ workflow_task = "running"
    /\ pc = "score"
    /\ IF evaluation.type = "assessment"
       THEN /\ \E total \in weighted_total_score(agent_outputs, dimension_importance) :
                  updated_vendors' = Append(updated_vendors,
                      [id |-> evaluation.vendors[idx].id, agent_outputs |-> agent_outputs,
                       total_score |-> total])
            /\ Emit(<< Ev("vendor_complete") >>)
            /\ agent_outputs' = << >>
            /\ IF idx < Len(evaluation.vendors)
               THEN idx' = idx + 1 /\ pc' = "invoke"
               ELSE idx' = idx /\ pc' = "finish"
            /\ UNCHANGED << evaluation, outcome, workflow_task >>
       ELSE \E total \in application_total_score(agent_outputs) :
               IF IsRaised(total)
               THEN /\ FailRun(evaluation, total.raised, << >>)
                    /\ UNCHANGED << updated_vendors, agent_outputs, idx >>
               ELSE /\ updated_vendors' =
                         << [id |-> evaluation.vendors[1].id,
                             agent_outputs |-> agent_outputs,
                             total_score |-> total.returned] >>
                    /\ pc' = "finish"
                    /\ UNCHANGED << evaluation, outcome, workflow_task, agent_outputs, idx,
                                    event_queue, published >>
    /\ UNCHANGED << evalVars, runs, searchVars, agentSources, collected, dimension_importance,
                    endpoint, generator, frames, invoked, pipeline_runs, response >>

\* The pipeline returned: run_workflow puts workflow_complete and ends
CompleteRun(doc, before) ==
    /\ evaluation' = doc
    /\ Emit(before \o << Ev("workflow_complete") >>)
    /\ outcome' = Some(Returned("completed"))
    /\ workflow_task' = "done"
    /\ pc' = "done"

\* The last stretch of the pipeline, without an await: the vendors are
\* stored, the comparison or the summary runs, the document is completed
Finish ==
    /\ workflow_task = "running"
    /\ pc = "finish"
    /\ IF evaluation.type = "assessment"
       THEN \E reply \in ComparisonReplies(updated_vendors) :
               LET stored == [evaluation EXCEPT
                                 !.vendors = Persisted(updated_vendors, agentSources)]
                   recommendation ==
                       recommendation_of(Comparison_execute(updated_vendors, reply))
                   checklist == generate_contextual_checklist(updated_vendors,
                                                              recommendation.vendor_id)
                   events == << Ev("agent_start") >>
                             \o (IF updated_vendors = << >> THEN << >>
                                 ELSE << Ev("agent_thinking") >>
                                      \o (IF reply.raises THEN << >>
                                          ELSE << Ev("agent_complete") >>))
               IN  IF IsRaised(checklist)
                   THEN FailRun(stored, checklist.raised, events)
                   ELSE CompleteRun([stored EXCEPT
                                        !.status = "completed",
                                        !.recommendation = Some(recommendation),
                                        !.onboarding_checklist = checklist.returned],
                                    events)
       ELSE \E reply \in SummaryReplies :
               LET summary == Summary_execute(agent_outputs, reply)
               IN  IF IsRaised(summary)
                   THEN FailRun(evaluation, summary.raised, << >>)
                   ELSE CompleteRun([evaluation EXCEPT
                              !.status = "completed",
                              !.vendors = Persisted(updated_vendors, agentSources),
                              !.recommendation =
                                  Some([vendor_id |-> evaluation.vendors[1].id,
                                        reason |-> summary.recommendation]),
                              !.onboarding_checklist = summary.onboarding_checklist],
                            << Ev("agent_start") >>)
    /\ UNCHANGED << evalVars, runs, searchVars, idx, agentSources, collected, agent_outputs,
                    updated_vendors, dimension_importance, endpoint, generator, frames,
                    invoked, pipeline_runs, response >>

\* event_generator takes the next event from the queue and yields its
\* frame; after a terminal event it leaves the loop and the stream ends
Deliver ==
    /\ generator = "streaming"
    /\ workflow_task # "running"
    /\ event_queue # << >>
    /\ frames' = Append(frames, Head(event_queue))
    /\ event_queue' = Tail(event_queue)
    /\ generator' = IF Terminal(Head(event_queue)) THEN "closed" ELSE "streaming"
    /\ UNCHANGED << evalVars, runs, pipeVars, searchVars, endpoint, workflow_task, published,
                    invoked, pipeline_runs, outcome, response >>

\* A timeout handler that yields the keepalive comment and leaves the loop
Keepalive_closing ==
    /\ generator = "streaming"
    /\ workflow_task # "running"
    /\ event_queue = << >>
    /\ Keepalives < MaxKeepalives
    /\ frames' = Append(frames, KeepaliveFrame)
    /\ generator' = "closed"
    /\ UNCHANGED << evalVars, runs, pipeVars, searchVars, endpoint, workflow_task,
                    event_queue, published, invoked, pipeline_runs, outcome, response >>

\* No event for 15 seconds: a keepalive comment is yielded
Keepalive ==
    /\ generator = "streaming"
    /\ workflow_task # "running"
    /\ event_queue = << >>
    /\ Keepalives < MaxKeepalives
    /\ frames' = Append(frames, KeepaliveFrame)
    /\ UNCHANGED << evalVars, runs, pipeVars, searchVars, endpoint, generator, workflow_task,
                    event_queue, published, invoked, pipeline_runs, outcome, response >>

\* The client goes away: CancelledError reaches event_generator while it
\* waits for the queue, and the handler cancels the workflow task
Disconnect ==
    /\ generator = "streaming"
    /\ workflow_task # "running"
    /\ generator' = "disconnected"
    /\ workflow_task' = Cancel(workflow_task)
    /\ UNCHANGED << evalVars, runs, pipeVars, searchVars, endpoint, event_queue, published,
                    frames, invoked, pipeline_runs, outcome, response >>

\* CancelledError is thrown into the task where it is suspended: before its
\* first step, or at the await inside the pipeline's try block
Throw ==
    /\ workflow_task = "cancelling"
    /\ IF pc # "start" /\ CaughtByExceptException("CancelledError")
       THEN FailRun(evaluation, "CancelledError", << >>)
       ELSE /\ workflow_task' = "cancelled"
            /\ outcome' = Some(Raised("CancelledError"))
            /\ UNCHANGED << evaluation, pc, event_queue, published >>
    /\ UNCHANGED << evalVars, runs, searchVars, idx, agentSources, collected, agent_outputs,
                    updated_vendors, dimension_importance, endpoint, generator, frames,
                    invoked, pipeline_runs, response >>

\* HTTPException: 404 for a ValueError, 500 for any other exception
HttpError(status_code, e) == Some([status_code |-> status_code, detail |-> e])

\* POST /workflows/application/{id}/run: run_application_pipeline, whose
\* dimension agents' execute() is called without await, so that each
\* "output" is a coroutine object and reading its score raises
RunApplicationWorkflowEndpoint ==
    /\ endpoint = "application_run"
    /\ pc = "start"
    /\ pipeline_runs' = pipeline_runs + 1
    /\ pc' = "done"
    /\ IF evaluation = NoEvaluation
       THEN /\ outcome' = Some(Raised("Evaluation not found"))
            /\ response' = HttpError(404, "Evaluation not found")
            /\ UNCHANGED evaluation
       ELSE IF evaluation.type # "application"
       THEN /\ outcome' = Some(Raised("Evaluation is not an application type"))
            /\ response' = HttpError(404, "Evaluation is not an application type")
            /\ UNCHANGED evaluation
       ELSE IF evaluation.vendors = << >>
       THEN /\ evaluation' = Failed([evaluation EXCEPT !.status = "running"],
                                    "No vendor found in evaluation")
            /\ outcome' = Some(Raised("No vendor found in evaluation"))
            /\ response' = HttpError(404, "No vendor found in evaluation")
       ELSE /\ evaluation' = Failed([evaluation EXCEPT !.status = "running"],
                                    "AttributeError")
            /\ outcome' = Some(Raised("AttributeError"))
            /\ response' = HttpError(500, "AttributeError")
    /\ UNCHANGED << evalVars, runs, searchVars, idx, agentSources, collected, agent_outputs,
                    updated_vendors, dimension_importance, endpoint, generator,
                    workflow_task, event_queue, published, frames, invoked >>

\* POST /workflows/assessment/{id}/run: run_assessment_pipeline; with no
\* vendor the loop is skipped and the run completes on the empty analysis
RunAssessmentWorkflowEndpoint ==
    /\ endpoint = "assessment_run"
    /\ pc = "start"
    /\ pipeline_runs' = pipeline_runs + 1
    /\ pc' = "done"
    /\ IF evaluation = NoEvaluation
       THEN /\ outcome' = Some(Raised("Evaluation not found"))
            /\ response' = HttpError(404, "Evaluation not found")
            /\ UNCHANGED evaluation
       ELSE IF evaluation.type # "assessment"
       THEN /\ outcome' = Some(Raised("Evaluation is not an assessment type"))
            /\ response' = HttpError(404, "Evaluation is not an assessment type")
            /\ UNCHANGED evaluation
       ELSE IF evaluation.vendors # << >>
       THEN /\ evaluation' = Failed([evaluation EXCEPT !.status = "running"],
                                    "AttributeError")
            /\ outcome' = Some(Raised("AttributeError"))
            /\ response' = HttpError(500, "AttributeError")
       ELSE LET recommendation == recommendation_of(Comparison_execute(<< >>, Down))
                checklist == generate_contextual_checklist(<< >>, recommendation.vendor_id)
            IN  /\ evaluation' = [evaluation EXCEPT
                                     !.status = "completed",
                                     !.recommendation = Some(recommendation),
                                     !.onboarding_checklist = checklist.returned]
                /\ outcome' = Some(Returned("completed"))
                /\ response' = Some([status_code |-> 200, detail |-> "completed"])
    /\ UNCHANGED << evalVars, runs, searchVars, idx, agentSources, collected, agent_outputs,
                    updated_vendors, dimension_importance, endpoint, generator,
                    workflow_task, event_queue, published, frames, invoked >>

NextRun ==
    \/ Connect
    \/ StartRun
    \/ Invoke
    \/ Return
    \/ Score
    \/ Finish
    \/ Deliver
    \/ Keepalive
    \/ Disconnect
    \/ Throw
    \/ RunApplicationWorkflowEndpoint
    \/ RunAssessmentWorkflowEndpoint

SpecRun == InitRun /\ [][NextRun]_vars

\* The loop asyncio runs event_generator in: an event in the queue is taken
SpecRunLive == SpecRun /\ WF_vars(Deliver)

\* ------------------------------------------------------------------------
\* Properties of the routes
\* ------------------------------------------------------------------------

\* The event frames yielded so far, without the keepalive comments
Delivered == SelectSeq(frames, LAMBDA f : f # KeepaliveFrame)

\* The stream runs a workflow task (the evaluation was found)
Streamed == endpoint = "stream" /\ workflow_task # "none"

\* C11: within one streamed run the event frames yielded are, in order,
\* the first events that were put on the queue (nothing reordered,
\* duplicated or dropped), and only the last frame can be a terminal event.
C11_DeliveredInPublishedOrder ==
    Streamed =>
        /\ Len(Delivered) <= Len(published)
        /\ \A k \in 1..Len(Delivered) : Delivered[k] = published[k]
        /\ \A k \in 1..Len(published) : published[k].n = k
        /\ \A k \in 1..(Len(Delivered) - 1) : ~Terminal(Delivered[k])

\* A stream that ended after a whole assessment of two vendors, with a
\* keepalive among its frames
C11_Witness ==
    /\ Streamed
    /\ generator = "closed"
    /\ Len(evaluation.vendors) = 2
    /\ Delivered[Len(Delivered)].event = "workflow_complete"
    /\ Keepalives > 0

\* The workflow task has ended: it returned, raised, or was cancelled
TaskEnded == workflow_task \in {"done", "cancelled"}

\* The terminal event frames among the frames yielded
TerminalFrames ==
    {k \in 1..Len(frames) : frames[k].event \in {"workflow_complete", "workflow_error"}}

\* At most one terminal frame is yielded, it is the last frame, and the
\* stream is closed exactly when it has been yielded; nothing follows it
OneTerminalFrameLast ==
    /\ [](Streamed =>
            /\ Cardinality(TerminalFrames) <= 1
            /\ TerminalFrames \subseteq {Len(frames)}
            /\ (generator = "closed") = (TerminalFrames # {}))
    /\ [][generator = "closed" => frames' = frames /\ generator' = "closed"]_vars

\* C12 as stated: whenever the pipeline task of a streamed run has ended,
\* a terminal event is eventually delivered, exactly one, as the last
\* frame, and the stream closes after it.
C12_TerminalAlwaysDelivered ==
    /\ OneTerminalFrameLast
    /\ (Streamed /\ TaskEnded) ~> (generator = "closed")

\* C12: the same, for the consumers that stay connected: whenever the
\* pipeline task of a streamed run has ended, the one terminal frame is
\* eventually delivered and closes the stream, unless the consumer has
\* disconnected (which cancels the task without any terminal event).
C12_TerminalDeliveredWhileConnected ==
    /\ OneTerminalFrameLast
    /\ (Streamed /\ TaskEnded) ~> (generator \in {"closed", "disconnected"})

\* A failed run whose stream was closed by the first workflow_error while
\* the second one stayed in the queue
C12_Witness ==
    /\ Streamed
    /\ generator = "closed"
    /\ workflow_task = "done"
    /\ frames[Len(frames)].event = "workflow_error"
    /\ event_queue # << >>

\* The pipeline function raised e
RaisedBy(e) == outcome = Some(Raised(e))

\* The exceptions raised in a run after the status was set to running
\* (cancellation is not one of them)
StartedRunFailures ==
    {"No vendor found in evaluation", "ZeroDivisionError", "TypeError", "AttributeError"}

\* The workflow_error events of a sequence of events or frames
ErrorsIn(events) == SelectSeq(events, LAMBDA ev : ev.event = "workflow_error")

\* A started run that failed is stored as failed with the message of the
\* exception
FailureStored ==
    \A e \in StartedRunFailures :
        RaisedBy(e) => evaluation.status = "failed" /\ evaluation.error = Some(e)

\* C13 as stated: a started run that fails is stored as failed with the
\* causing message, and exactly one workflow_error event is put on the
\* run's event channel.
C13_OneErrorEventPut ==
    /\ FailureStored
    /\ \A e \in StartedRunFailures :
          RaisedBy(e) /\ Streamed => Len(ErrorsIn(published)) = 1

\* C13: a started run that fails is stored as failed with the causing
\* message; on its stream the consumer is given at most one workflow_error
\* frame, carrying that message, and exactly one once the stream has
\* closed, while two workflow_error events were put on the queue (by the
\* pipeline's handler and by run_workflow).
C13_OneErrorEventDelivered ==
    /\ FailureStored
    /\ \A e \in StartedRunFailures :
          RaisedBy(e) /\ Streamed =>
              /\ Len(ErrorsIn(published)) = 2
              /\ \A k \in 1..2 : ErrorsIn(published)[k].data = e
              /\ Len(ErrorsIn(frames)) <= 1
              /\ generator = "closed" =>
                    /\ Len(ErrorsIn(frames)) = 1
                    /\ ErrorsIn(frames)[1] = ErrorsIn(published)[1]

\* An application run that failed on the sum of its scores, the error
\* delivered and the stream closed
C13_Witness ==
    /\ Streamed
    /\ RaisedBy("TypeError")
    /\ evaluation.status = "failed"
    /\ generator = "closed"
    /\ Len(ErrorsIn(frames)) = 1

\* The run is on an existing evaluation whose type is not the type of the
\* pipeline that is run (the stream picks the pipeline by the type)
TypeMismatch ==
    \/ endpoint = "application_run" /\ evaluation.type = "assessment"
    \/ endpoint = "assessment_run" /\ evaluation.type = "application"

\* The application pipeline is run on an application without a vendor
NoVendorToApply ==
    /\ endpoint \in {"application_run", "stream"}
    /\ evaluation.type = "application"
    /\ evaluation.vendors = << >>

\* The pipeline function has ended
RunEnded == outcome # None

\* C14: when a run on an existing evaluation has a fatal input error (type
\* mismatch, or an application without vendor), in the synchronous and the
\* streamed variants the run ends with an explicit error, the stored status
\* is failed, no dimension agent was invoked and the pipeline ran once.
C14_FatalInputMarksFailed ==
    RunEnded /\ (TypeMismatch \/ NoVendorToApply) =>
        /\ IsRaised(outcome[1])
        /\ evaluation.status = "failed"
        /\ invoked = << >>
        /\ pipeline_runs = 1

\* The consumer has disconnected and cancel() was called on a task that
\* had not ended
CancelRequested == workflow_task \in {"cancelling", "cancelled"}

\* The vendor outputs stored in the evaluation document
StoredOutputs ==
    {k \in 1..Len(evaluation.vendors) : evaluation.vendors[k].agent_outputs # << >>}

\* C15: when the consumer disconnects during a run, the task is cancelled
\* where it is suspended (before its first step, or at the await of an
\* agent call); from then on no agent is invoked and the evaluation
\* document is not written; the outputs computed before are not stored.
\* A task that has already ended (its final stretch has no await) is left
\* as it is.
C15_CancelledRunStopsAndDiscards ==
    /\ [](generator = "disconnected" => workflow_task \in {"cancelling", "cancelled", "done"})
    /\ [](workflow_task = "cancelling" => pc \in {"start", "await"})
    /\ [](CancelRequested => StoredOutputs = {} /\ evaluation.status \in {"pending", "running"})
    /\ [][CancelRequested =>
            /\ invoked' = invoked
            /\ evaluation' = evaluation
            /\ published' = published
            /\ workflow_task' \in {"cancelling", "cancelled"}]_vars

\* A run cancelled while its second vendor was being evaluated: the first
\* vendor's outputs were computed and are not stored
C15_Witness ==
    /\ workflow_task = "cancelled"
    /\ generator = "disconnected"
    /\ Len(updated_vendors) = 1
    /\ Len(invoked) > 4
    /\ StoredOutputs = {}


\* C29: in every completed assessment run the stored recommendation's
\* vendor_id is the empty string or the id of one of the evaluation's vendors.
C29_RecommendedIsOneOfTheVendors ==
    (evaluation # << >> /\ evaluation.type = "assessment" /\ pc = "done"
        /\ evaluation.status = "completed")
    => \/ evaluation.recommendation[1].vendor_id = ""
       \/ \E k \in DOMAIN evaluation.vendors :
             evaluation.vendors[k].id = evaluation.recommendation[1].vendor_id

\* C24: while the stream is open, a wait of a full keepalive interval with
\* no event available yields exactly one keepalive comment and the consumer
\* keeps waiting: the stream stays open, nothing is taken from or put on the
\* queue; and with keepalives among the frames the event frames are still
\* the first events published, in order, none dropped or duplicated.
C24_KeepaliveOnlyAddsItsFrame ==
    /\ [](Streamed =>
            /\ Len(Delivered) <= Len(published)
            /\ \A k \in 1..Len(Delivered) : Delivered[k] = published[k])
    /\ [][Keepalives' # Keepalives =>
            /\ generator = "streaming" /\ event_queue = << >>
            /\ frames' = Append(frames, KeepaliveFrame)
            /\ generator' = "streaming"
            /\ event_queue' = event_queue
            /\ published' = published
            /\ workflow_task' = workflow_task]_vars

\* A keepalive between two event frames of a stream that went on to its
\* terminal event
C24_Witness ==
    /\ Streamed
    /\ generator = "closed"
    /\ \E k \in 2..(Len(frames) - 1) :
          /\ frames[k] = KeepaliveFrame
          /\ frames[k - 1] # KeepaliveFrame
          /\ frames[k + 1] # KeepaliveFrame
    /\ Terminal(frames[Len(frames)])


\* C26: every streamed run that set the stored status to running leaves it
\* completed or failed on every path, cancellation after a disconnect
\* included: once the workflow task has ended the status is not running.
C26_EndedRunIsNotRunning ==
    Streamed /\ TaskEnded => evaluation.status # "running"

\* ------------------------------------------------------------------------
\* Decisions on the vendors of an assessment while progress streams run its
\* pipeline: set_vendor_decision of routes/core.py, stream_workflow_progress
\* of routes/workflows.py, run_assessment_pipeline_async
\* ------------------------------------------------------------------------

MaxStreams == 2

Streams == 1..MaxStreams

DecisionVendorCount == 2

\* The compliance statuses the runs end with here
RunComplianceStatuses == {"ok", "risk"}

valid_statuses == {"approved_pending_actions", "approved", "declined"}

\* Vendor(...).model_dump(): every agent output null, the default decision
DecisionVendor(k) ==
    [id |-> VendorId(k), agent_outputs |-> [compliance |-> None],
     decision |-> [status |-> "pending"]]

DecisionEvaluation ==
    [type |-> "assessment", status |-> "pending",
     vendors |-> [k \in 1..DecisionVendorCount |-> DecisionVendor(k)]]

NoRun == [pc |-> "none", evaluation |-> << >>, idx |-> 0, updated_vendors |-> << >>]

\* set_vendor_decision on the stored document doc: the answer's status code
\* and the document it leaves
set_vendor_decision(doc, vendor_id, status) ==
    LET found == {k \in DOMAIN doc.vendors : doc.vendors[k].id = vendor_id}
        k == CHOOSE j \in found : \A other \in found : j <= other
        compliance == doc.vendors[k].agent_outputs.compliance
        decided == [doc EXCEPT !.vendors[k].decision = [status |-> status]]
        any_approved ==
            \E j \in DOMAIN decided.vendors :
                decided.vendors[j].decision.status \in {"approved", "approved_pending_actions"}
    IN  IF status \notin valid_statuses
        THEN [code |-> 400, evaluation |-> doc]
        ELSE IF found = {}
        THEN [code |-> 404, evaluation |-> doc]
        ELSE IF status = "approved" /\ compliance = None
        THEN [code |-> 500, evaluation |-> doc]
        ELSE IF status = "approved" /\ compliance[1].status # "ok"
        THEN [code |-> 400, evaluation |-> doc]
        ELSE [code |-> 200,
              evaluation |-> IF any_approved /\ decided.status = "completed"
                             THEN [decided EXCEPT !.status = "finalized"]
                             ELSE decided]

DecisionIdle ==
    /\ evalCall = NoCall
    /\ evalResult = NoCall
    /\ SearchIdle
    /\ pc = "idle"
    /\ idx = 0
    /\ agentSources = [d \in DimSet |-> << >>]
    /\ collected = << >>
    /\ agent_outputs = << >>
    /\ updated_vendors = << >>
    /\ dimension_importance = default_importance
    /\ endpoint = "none"
    /\ generator = "none"
    /\ workflow_task = "none"
    /\ event_queue = << >>
    /\ published = << >>
    /\ frames = << >>
    /\ invoked = << >>
    /\ outcome = None

InitDecision ==
    /\ DecisionIdle
    /\ evaluation = DecisionEvaluation
    /\ runs = [s \in Streams |-> NoRun]
    /\ pipeline_runs = 0
    /\ response = None

DecisionRest ==
    UNCHANGED << evalVars, searchVars, pc, idx, agentSources, collected, agent_outputs,
                 updated_vendors, dimension_importance, endpoint, generator,
                 workflow_task, event_queue, published, frames, invoked, outcome >>

\* GET /workflows/{id}/stream, connection s: event_generator finds the
\* evaluation and creates the task; the pipeline loads the evaluation, stores
\* running, profiles the requirements and reaches the first vendor's agents
OpenStream(s) ==
    /\ runs[s].pc = "none"
    /\ runs' = [runs EXCEPT ![s] = [pc |-> "agents", evaluation |-> evaluation,
                                    idx |-> 1, updated_vendors |-> << >>]]
    /\ evaluation' = [evaluation EXCEPT !.status = "running"]
    /\ pipeline_runs' = pipeline_runs + 1
    /\ UNCHANGED response
    /\ DecisionRest

\* The four agents of the current vendor of run s have returned, the
\* compliance agent with `status`: the vendor as loaded, with the new outputs,
\* joins updated_vendors; after the last vendor the vendors are stored, the
\* comparison runs and the document is completed
VendorEvaluated(s, status) ==
    /\ runs[s].pc = "agents"
    /\ LET run == runs[s]
           vendor == run.evaluation.vendors[run.idx]
           scored == [vendor EXCEPT !.agent_outputs =
                                       [compliance |-> Some([status |-> status])]]
           updated == Append(run.updated_vendors, scored)
       IN  IF run.idx < Len(run.evaluation.vendors)
           THEN /\ runs' = [runs EXCEPT ![s].idx = @ + 1,
                                        ![s].updated_vendors = updated]
                /\ UNCHANGED evaluation
           ELSE /\ runs' = [runs EXCEPT ![s].pc = "done",
                                        ![s].updated_vendors = updated]
                /\ evaluation' = [evaluation EXCEPT !.status = "completed",
                                                    !.vendors = updated]
    /\ UNCHANGED << pipeline_runs, response >>
    /\ DecisionRest

\* An agent of run s raises: the handler stores failed
AgentRaised(s) ==
    /\ runs[s].pc = "agents"
    /\ runs' = [runs EXCEPT ![s].pc = "failed"]
    /\ evaluation' = [evaluation EXCEPT !.status = "failed"]
    /\ UNCHANGED << pipeline_runs, response >>
    /\ DecisionRest

\* The client of stream s goes away while an agent is awaited: the task is
\* cancelled, nothing is stored
StreamClosed(s) ==
    /\ runs[s].pc = "agents"
    /\ runs' = [runs EXCEPT ![s].pc = "cancelled"]
    /\ UNCHANGED << evaluation, pipeline_runs, response >>
    /\ DecisionRest

DecisionVendorIds == {VendorId(k) : k \in 1..(DecisionVendorCount + 1)}

\* The statuses posted: two valid ones and one that is not
DecisionStatuses == {"approved", "approved_pending_actions", "pending"}

\* POST /evaluations/{id}/vendors/{vendor_id}/decision
SetVendorDecision(vendor_id, status) ==
    /\ LET answer == set_vendor_decision(evaluation, vendor_id, status)
       IN  /\ evaluation' = answer.evaluation
           /\ response' = Some(answer.code)
    /\ UNCHANGED << runs, pipeline_runs >>
    /\ DecisionRest

NextDecision ==
    \/ \E s \in Streams : OpenStream(s)
    \/ \E s \in Streams, status \in RunComplianceStatuses : VendorEvaluated(s, status)
    \/ \E s \in Streams : AgentRaised(s)
    \/ \E s \in Streams : StreamClosed(s)
    \/ \E vendor_id \in DecisionVendorIds, status \in DecisionStatuses :
          SetVendorDecision(vendor_id, status)

SpecDecision == InitDecision /\ [][NextDecision]_vars

\* The runs in progress: started, and neither returned, failed nor cancelled
InProgress == {s \in Streams : runs # << >> /\ runs[s].pc = "agents"}

Approved(doc, k) == doc.vendors[k].decision.status = "approved"

ComplianceOk(doc, k) ==
    /\ doc.vendors[k].agent_outputs.compliance # None
    /\ doc.vendors[k].agent_outputs.compliance[1].status = "ok"

\* C27: in every reachable state of an evaluation a vendor whose stored
\* decision is approved has compliance status ok, however decisions and
\* pipeline runs and re-runs interleave.
C27_ApprovedIsCompliant ==
    runs # << >> =>
        \A k \in DOMAIN evaluation.vendors :
            Approved(evaluation, k) => ComplianceOk(evaluation, k)

\* C28: at most one pipeline run is in progress for an evaluation at any
\* time: opening the progress stream of an evaluation that is already running
\* or completed starts no other run.
C28_AtMostOneRunInProgress ==
    Cardinality(InProgress) <= 1

\* The scores of the call that are not absent
IncludedScores ==
    {evalCall.agent_outputs[d].score[1] :
        d \in {dim \in DimSet : evalCall.agent_outputs[dim].score # None}}

Scored == evalResult # NoCall /\ evalResult.agent = "total_score"

\* C30: a total_score that is present lies between the least and the greatest
\* of the vendor's dimension scores that are not absent, and so between 0 and
\* 5, for all importance weights from 0 to 5, all of them 0 included.
C30_TotalWithinIncludedScores ==
    (Scored /\ evalResult.total_score # None)
    => /\ \E low \in IncludedScores : low <= evalResult.total_score[1]
       /\ \E high \in IncludedScores : evalResult.total_score[1] <= high
       /\ 0 <= evalResult.total_score[1]
       /\ evalResult.total_score[1] <= 500

\* All four weights 0, one dimension without a score, the others with
\* different scores: the total is present, strictly between two of them
C30_Witness ==
    /\ Scored
    /\ \A dim \in ProfileDims : evalCall.dimension_importance[dim] = 0
    /\ evalCall.agent_outputs["compliance"].score = None
    /\ Cardinality(IncludedScores) = 2
    /\ evalResult.total_score # None
    /\ \A score \in IncludedScores : score # evalResult.total_score[1]

====
